---- MODULE Spec2Model ----
(***************************************************************************)
(* FretStudio: the note utilities, the interval resolver, the diatonic      *)
(* chord listing, the voicing validator, the chord editor's fingering       *)
(* handlers and the fretboard rendering, as state machines.                 *)
(*                                                                          *)
(* Note names are strings, as in the frontend and on the wire; pitch        *)
(* classes are the integers 0..11 the resolution engine works on.  String   *)
(* numbers are those of the API response and of the fingering triples:      *)
(* 1..stringCount.                                                          *)
(***************************************************************************)
EXTENDS Integers, Sequences, FiniteSets, TLC

VARIABLES
    \* --- noteUtils.ts round trip ---
    accidentalType,   \* 'sharps' | 'flats'
    pitch,            \* index 0..11 into getNoteNames(...)
    spelled,          \* getNoteNames(accidentalType)[pitch], once looked up
    parsed,           \* <<NOTES.indexOf(unformatNote(spelled))>>, once computed
    noteIn,           \* a note name handed to formatNote
    formatted,        \* formatNote(noteIn, accidentalType), once computed
    unformatted,      \* unformatNote(formatted), once computed
    \* --- getNotesFromIntervals ---
    root,             \* previewRoot
    intervals,        \* the interval list
    notes,            \* previewNotes
    notesDone,        \* whether getNotesFromIntervals has run
    \* --- diatonicChords ---
    scaleRoot,        \* pitch class of the scale's root
    scaleIntervals,   \* the scale's interval list, ascending
    catalog,          \* the ordered chord-type catalog
    chords,           \* the list diatonicChords returned
    chordsDone,       \* whether diatonicChords has run
    \* --- the chord being edited or validated ---
    tuning,           \* open-string note names, tuning[s] for string number s
    chordRoot,        \* rootForAPI, a sharp-based note name
    chordType,        \* the chord type's definition
    \* --- validate ---
    vFingering,       \* the fingering handed to validate
    vResult,          \* its result, once computed
    \* --- ChordEditor ---
    fingering,        \* the fingering being edited: a list of <<string, fret, finger>>
    activeFret,       \* <<string, fret>> of the open finger selector, or NoFret
    voicingName,      \* the Voicing Name field
    voicings,         \* the voicings last fetched for the chord
    library,          \* the voicings the backend stores for the chord
    alert,            \* the alert() on screen, or None
    \* --- App / ScaleVisualizer and the Fretboard they render ---
    page,                 \* which page shows the fretboard: "App" or "ScaleVisualizer"
    displayAccidental,    \* the accidental type of the AccidentalTypeContext
    gridMaxFret,          \* the backend's highest fret
    selectedTuning,       \* open-string note names, lowest string first
    selectedRoot,         \* the Root Note selector, in the spelling it offers
    selectedScale,        \* the Scale selector: a scale record
    selectedChord,        \* the Chord selector: <<root name, type name>>, or NoChord
    fretboardData,        \* the grid last fetched
    chordNotes,           \* the note names of the selected chord last fetched
    pageVoicings,         \* the voicings of the selected chord last fetched
    selectedVoicingIndex, \* 0-based index into pageVoicings, -1 for All Tones
    \* --- ScaleEditor / ChordEditor: the interval checkboxes ---
    intervalEditor,       \* which editor: "scale" or "chordType"
    editedName,           \* editedScaleName / chordTypeName
    selectedIntervals,    \* selectedIntervals / chordTypeIntervals
    sentIntervals,        \* the intervals of the definition being posted, or NoPayload
    intervalAlert,        \* the alert() the Save handler shows, or None
    \* --- NoteSpace: transposing twice and transposing once ---
    pc,                   \* the pitch class transposed
    shiftA,               \* the first number of semitones
    shiftB,               \* the second number of semitones
    afterA,               \* <<transpose(pc, shiftA)>>, once computed
    afterAB,              \* <<transpose(transpose(pc, shiftA), shiftB)>>, once computed
    afterSum,             \* <<transpose(pc, shiftA + shiftB)>>, once computed
    \* --- IntervalVisibilityProvider / FingeringVisibilityProvider ---
    isIntervalVisible,    \* the state of the IntervalVisibilityProvider
    isFingeringVisible,   \* the state of the FingeringVisibilityProvider
    intervalClicks,       \* clicks on the Intervals button so far
    fingeringClicks,      \* clicks on the Fingerings button so far
    intervalBefore,       \* isIntervalVisible before the last click on Intervals
    fingeringBefore,      \* isFingeringVisible before the last click on Fingerings
    \* --- App: the router ---
    navHistory,           \* the history stack of the router; its last entry is the location
    \* --- SaveLoadPage: the selection checkboxes ---
    allData,              \* the data the page shows: scales, chord_types, tunings, voicings_library
    selections,           \* the four sets of ticked names and voicing ids
    sentSelections,       \* the payload of the last Save Selections, or NoSelections
    \* --- SaveLoadPage: loading the data, factory reset, file load ---
    isLoading,            \* the isLoading state: the page shows Loading...
    pendingFetches,       \* all-data requests without an outcome yet
    pendingResets,        \* factory-reset requests without an outcome yet
    pendingLoads,         \* hard-load and soft-load requests without an outcome yet
    fetchesStarted,       \* how often fetchData was called
    accepted,             \* how often the confirmation dialog was accepted
    declined,             \* how often the confirmation dialog was declined
    resetsSent,           \* how many factory-reset requests were sent
    resetsSucceeded,      \* how many factory-reset requests reported success
    \* --- HandednessProvider and AccidentalTypeProvider ---
    localStorage,         \* the items fretstudio-handedness and fretstudio-accidental-type
    handedness,           \* the handedness state
    contextAccidentalType, \* the accidentalType state of the provider
    effectsPending,       \* the providers rendered, their effects have not run yet
    toggles,              \* how often a toggle was called since the page was opened
    reloads,              \* how often the page was reloaded
    \* --- ScaleVisualizer: requests in flight ---
    shownChords,          \* the chords state: the options of the Chord selector
    chordFetches,         \* the fetchDiatonicChords calls waiting for their response
    dataFetches,          \* the fetchFretboardAndChordData calls waiting for a response
    sent,                 \* how many effect runs have started a fetch
    changes               \* how many selections the user has made

noteVars == <<accidentalType, pitch, spelled, parsed, noteIn, formatted, unformatted>>
resolveVars == <<root, intervals, notes, notesDone>>
diatonicVars == <<scaleRoot, scaleIntervals, catalog, chords, chordsDone>>
chordVars == <<tuning, chordRoot, chordType>>
validateVars == <<vFingering, vResult>>
editorVars == <<fingering, activeFret, voicingName, voicings, library, alert>>
fretVars == <<page, displayAccidental, gridMaxFret, selectedTuning, selectedRoot, selectedScale,
              selectedChord, fretboardData, chordNotes, pageVoicings, selectedVoicingIndex>>
intervalVars == <<intervalEditor, editedName, selectedIntervals, sentIntervals, intervalAlert>>
transposeVars == <<pc, shiftA, shiftB, afterA, afterAB, afterSum>>
visibilityVars == <<isIntervalVisible, isFingeringVisible, intervalClicks, fingeringClicks,
                    intervalBefore, fingeringBefore>>
navVars == <<navHistory>>
saveLoadVars == <<allData, selections, sentSelections>>
loadVars == <<isLoading, pendingFetches, pendingResets, pendingLoads, fetchesStarted, accepted, declined, resetsSent, resetsSucceeded>>
settingsVars == <<localStorage, handedness, contextAccidentalType, effectsPending, toggles, reloads>>
inFlightVars == <<shownChords, chordFetches, dataFetches, sent, changes>>
vars == <<noteVars, resolveVars, diatonicVars, chordVars, validateVars, editorVars, fretVars, intervalVars, transposeVars, visibilityVars, navVars, saveLoadVars, loadVars, settingsVars, inFlightVars>>

\* What the actions of each specification leave alone.
notesFrame == <<resolveVars, diatonicVars, chordVars, validateVars, editorVars, fretVars, intervalVars, transposeVars, visibilityVars, navVars, saveLoadVars, loadVars, settingsVars, inFlightVars>>
resolveFrame == <<noteVars, diatonicVars, chordVars, validateVars, editorVars, fretVars, intervalVars, transposeVars, visibilityVars, navVars, saveLoadVars, loadVars, settingsVars, inFlightVars>>
diatonicFrame == <<noteVars, resolveVars, chordVars, validateVars, editorVars, fretVars, intervalVars, transposeVars, visibilityVars, navVars, saveLoadVars, loadVars, settingsVars, inFlightVars>>
validateFrame == <<noteVars, resolveVars, diatonicVars, editorVars, fretVars, intervalVars, transposeVars, visibilityVars, navVars, saveLoadVars, loadVars, settingsVars, inFlightVars>>
editorFrame == <<noteVars, resolveVars, diatonicVars, validateVars, fretVars, intervalVars, transposeVars, visibilityVars, navVars, saveLoadVars, loadVars, settingsVars, inFlightVars>>
intervalFrame == <<noteVars, resolveVars, diatonicVars, chordVars, validateVars, editorVars, fretVars, transposeVars, visibilityVars, navVars, saveLoadVars, loadVars, settingsVars, inFlightVars>>
transposeFrame == <<noteVars, resolveVars, diatonicVars, chordVars, validateVars, editorVars, fretVars, intervalVars, visibilityVars, navVars, saveLoadVars, loadVars, settingsVars, inFlightVars>>
visibilityFrame == <<noteVars, resolveVars, diatonicVars, chordVars, validateVars, editorVars, fretVars, intervalVars, transposeVars, navVars, saveLoadVars, loadVars, settingsVars, inFlightVars>>
navFrame == <<noteVars, resolveVars, diatonicVars, chordVars, validateVars, editorVars, fretVars, intervalVars, transposeVars, visibilityVars, saveLoadVars, loadVars, settingsVars, inFlightVars>>
saveLoadFrame == <<noteVars, resolveVars, diatonicVars, chordVars, validateVars, editorVars, fretVars, intervalVars, transposeVars, visibilityVars, navVars, loadVars, settingsVars, inFlightVars>>
loadFrame == <<noteVars, resolveVars, diatonicVars, chordVars, validateVars, editorVars, fretVars, intervalVars, transposeVars, visibilityVars, navVars, selections, sentSelections, settingsVars, inFlightVars>>
settingsFrame == <<noteVars, resolveVars, diatonicVars, chordVars, validateVars, editorVars, fretVars, intervalVars, transposeVars, visibilityVars, navVars, saveLoadVars, loadVars, inFlightVars>>
inFlightFrame == <<noteVars, resolveVars, diatonicVars, chordVars, validateVars, editorVars, intervalVars, transposeVars, visibilityVars, navVars, saveLoadVars, loadVars, settingsVars>>
fretFrame == <<noteVars, resolveVars, diatonicVars, chordVars, validateVars, editorVars, intervalVars, transposeVars, visibilityVars, navVars, saveLoadVars, loadVars, settingsVars, inFlightVars>>

\* A value no computation returns: "not computed yet".
None == "none"
\* No validation result: none was asked for, or none has arrived.
NoResult == [pending |-> TRUE]
\* No active fret: null.
NoFret == <<>>
\* JavaScript's undefined, as an array read outside the array yields it.
Undefined == "undefined"
\* No fretboard data: null.
NoData == <<>>
\* No chord selected: the empty string.
NoChord == <<>>
\* No scale selected: the empty string.
NoScale == [name |-> "", intervals |-> <<>>]
\* No voicing selected: null.
NoVoicing == [name |-> "", fingering |-> <<>>]
\* No cell at that string and fret: null or undefined.
NoCell == [note |-> "", is_in_scale |-> FALSE, is_in_chord |-> FALSE, is_root |-> FALSE]
\* No definition is being posted.
NoPayload == <<>>
\* Nothing ticked on the save/load page: four empty sets.
EmptySelections == [scales |-> {}, chordTypes |-> {}, tunings |-> {}, voicings |-> {}]
\* No data on the save/load page: null.
NoAllData == [scales |-> {}, chord_types |-> {}, tunings |-> {}, voicings_library |-> {}]
\* No Save Selections request was sent.
NoSelections == [scales |-> {}, chordTypes |-> {}, tunings |-> {}, voicings |-> {<<>>}]
\* The validNotes prop left out: undefined.
NoNotes == <<Undefined>>

(***************************************************************************)
(* Bounds of the model.                                                     *)
(***************************************************************************)
\* Longest interval list handed to getNotesFromIntervals.
MaxLen == 3
\* Largest interval value in such a list (12 and above wrap around).
MaxInterval == 13
\* Number of intervals of the scales handed to diatonicChords.
ScaleSize == 7
\* Longest chord-type catalog handed to diatonicChords.
MaxCatalog == 2
\* Highest fret of the fretboard the chord editor and the validator work on.
MaxFret == 2
\* Highest finger number chosen in the finger selector (the selector offers 0..4).
MaxFinger == 1
\* Most checkboxes ticked on top of what an editor holds.
MaxSelected == 2
\* Most semitones a pitch class is transposed by, up or down.
MaxShift == 13
\* Most clicks on one visibility toggle button.
MaxClicks == 10
\* Most entries of the router's history stack.
MaxHistory == 5
\* How many answers to the confirmation dialog, and how many file loads
\* that can still start a fetch, are followed.
MaxRequests == 2
\* How many toggles of a setting, and how many reloads of the page, are followed.
MaxToggles == 4
MaxReloads == 2
\* How many selections of the user are followed while responses are awaited.
MaxChanges == 3
\* How far below 0 an interval typed into the scale editor's text field goes
\* (parseInt reads "-1" as -1).
MaxDown == 1

(***************************************************************************)
(* JavaScript helpers.                                                      *)
(***************************************************************************)
\* a % b of JavaScript for b > 0: the sign follows the dividend.
JsRem(a, b) == IF a >= 0 THEN a % b ELSE 0 - ((0 - a) % b)

\* Array.prototype.indexOf: the first 0-based position of x, or -1.
IndexOf(arr, x) ==
    IF \E k \in 1..Len(arr) : arr[k] = x
    THEN (CHOOSE k \in 1..Len(arr) : arr[k] = x /\ \A j \in 1..(k-1) : arr[j] # x) - 1
    ELSE -1

\* arr[i] of JavaScript, i 0-based: undefined outside the array.
At(arr, i) == IF i \in 0..(Len(arr) - 1) THEN arr[i + 1] ELSE Undefined

\* The elements of a list, as a set.
Range(arr) == {arr[k] : k \in 1..Len(arr)}

\* Whether a list holds no element twice.
NoDup(arr) == \A j, k \in 1..Len(arr) : j # k => arr[j] # arr[k]

(***************************************************************************)
(* noteUtils.ts                                                             *)
(***************************************************************************)
SHARP_NOTES == <<"C", "C#", "D", "D#", "E", "F", "F#", "G", "G#", "A", "A#", "B">>
FLAT_NOTES == <<"C", "Db", "D", "Eb", "E", "F", "Gb", "G", "Ab", "A", "Bb", "B">>

\* The object literal SHARP_TO_FLAT: its keys, and the value of each key.
SharpKeys == {"C#", "D#", "F#", "G#", "A#"}
SHARP_TO_FLAT(n) ==
    CASE n = "C#" -> "Db" [] n = "D#" -> "Eb" [] n = "F#" -> "Gb"
      [] n = "G#" -> "Ab" [] n = "A#" -> "Bb"

FlatKeys == {"Db", "Eb", "Gb", "Ab", "Bb"}
\* A slip of one row: Gb looked up as G#.
FLAT_TO_SHARP_slip(n) ==
    CASE n = "Db" -> "C#" [] n = "Eb" -> "D#" [] n = "Gb" -> "G#"
      [] n = "Ab" -> "G#" [] n = "Bb" -> "A#"
FLAT_TO_SHARP(n) ==
    CASE n = "Db" -> "C#" [] n = "Eb" -> "D#" [] n = "Gb" -> "F#"
      [] n = "Ab" -> "G#" [] n = "Bb" -> "A#"

\* FLAT_TO_SHARP[note] || note
unformatNote(note) == IF note \in FlatKeys THEN FLAT_TO_SHARP(note) ELSE note

\* accidentalType === 'flats' && SHARP_TO_FLAT[note] ? SHARP_TO_FLAT[note] : note
formatNote(note, accType) ==
    IF accType = "flats" /\ note \in SharpKeys THEN SHARP_TO_FLAT(note) ELSE note

getNoteNames(accType) == IF accType = "flats" THEN FLAT_NOTES ELSE SHARP_NOTES

(***************************************************************************)
(* ScaleEditor: getNotesFromIntervals                                       *)
(***************************************************************************)
NOTES == <<"C", "C#", "D", "D#", "E", "F", "F#", "G", "G#", "A", "A#", "B">>

getNotesFromIntervals(rootNote, ivs) ==
    LET rootIndex == IndexOf(NOTES, rootNote)
    IN  IF rootIndex = -1 THEN <<>>
        ELSE [k \in 1..Len(ivs) |-> At(NOTES, JsRem(rootIndex + ivs[k], 12))]

(***************************************************************************)
(* NoteSpace of the resolution engine.                                      *)
(***************************************************************************)
PitchClasses == 0..11

\* A transposition that takes the remainder with the sign of the sum.
Transpose_remainder(p, semitones) == JsRem(p + semitones, 12)

\* transpose(pitch, semitones) = (pitch + semitones) mod 12
Transpose(p, semitones) == (p + semitones) % 12

(***************************************************************************)
(* ScaleResolver and ChordResolver of the resolution engine.                *)
(***************************************************************************)
\* resolveScale(root, intervals): each interval of the list transposed from the
\* root, as a set.
resolveScale(rootPc, ivs) == {Transpose(rootPc, ivs[k]) : k \in 1..Len(ivs)}

\* resolveChord: identical mechanics.
resolveChord(rootPc, ivs) == resolveScale(rootPc, ivs)

\* degreeOf(pitch, root, intervals): the 1-based position of the pitch in the
\* ascending-from-root ordering of the intervals, 0 when it is not in the set.
degreeOf(p, rootPc, ivs) ==
    IF \E k \in 1..Len(ivs) : Transpose(rootPc, ivs[k]) = p
    THEN CHOOSE k \in 1..Len(ivs) :
            /\ Transpose(rootPc, ivs[k]) = p
            /\ \A j \in 1..(k - 1) : Transpose(rootPc, ivs[j]) # p
    ELSE 0

\* The chord types of the catalog, from position c on, that fit in S on root r.
RECURSIVE ChordsOnRoot(_, _, _, _)
ChordsOnRoot(S, r, cat, c) ==
    IF c > Len(cat) THEN <<>>
    ELSE (IF resolveChord(r, cat[c].intervals) \subseteq S THEN <<[root |-> r, type |-> cat[c]]>> ELSE <<>>)
         \o ChordsOnRoot(S, r, cat, c + 1)

\* The diatonic chords on the scale degrees from d on.
RECURSIVE ChordsFromDegree(_, _, _, _, _)
ChordsFromDegree(S, rootPc, ivs, cat, d) ==
    IF d > Len(ivs) THEN <<>>
    ELSE ChordsOnRoot(S, Transpose(rootPc, ivs[d]), cat, 1)
         \o ChordsFromDegree(S, rootPc, ivs, cat, d + 1)

\* A listing that walks the catalog first and the scale degrees second.
RECURSIVE ChordsByType(_, _, _, _, _)
ChordsByType(S, rootPc, ivs, cat, c) ==
    IF c > Len(cat) THEN <<>>
    ELSE LET fits(d) == resolveChord(Transpose(rootPc, ivs[d]), cat[c].intervals) \subseteq S
             pick == SelectSeq([d \in 1..Len(ivs) |-> d], fits)
         IN  [k \in 1..Len(pick) |-> [root |-> Transpose(rootPc, ivs[pick[k]]), type |-> cat[c]]]
             \o ChordsByType(S, rootPc, ivs, cat, c + 1)
diatonicChords_byType(rootPc, ivs, cat) ==
    ChordsByType(resolveScale(rootPc, ivs), rootPc, ivs, cat, 1)

\* A listing that tests only the chord's root and fifth-most interval, not the
\* whole chord.
diatonicChords_rootOnly(rootPc, ivs, cat) ==
    LET S == resolveScale(rootPc, ivs)
        all == ChordsFromDegree(PitchClasses, rootPc, ivs, cat, 1)
        keep(ch) == Transpose(ch.root, ch.type.intervals[Len(ch.type.intervals)]) \in S
    IN  SelectSeq(all, keep)

\* diatonicChords(scaleRoot, scaleIntervals, chordTypeCatalog)
diatonicChords(rootPc, ivs, cat) ==
    ChordsFromDegree(resolveScale(rootPc, ivs), rootPc, ivs, cat, 1)

(***************************************************************************)
(* VoicingValidator of the resolution engine.                               *)
(***************************************************************************)
\* The pitch class of a sharp-based note name.
PitchOf(name) == IndexOf(SHARP_NOTES, name)

\* The pitch classes of a tuning's open strings.
OpenPitches(tun) == [s \in 1..Len(tun) |-> PitchOf(tun[s])]

\* The status of one fingering entry: muted, open-root, open or fretted(finger).
StatusOf(e, rootPc, open) ==
    IF e[2] = -1 THEN <<"muted">>
    ELSE IF e[2] = 0 THEN (IF open[e[1]] = rootPc THEN <<"open-root">> ELSE <<"open">>)
    ELSE <<"fretted", e[3]>>

\* A validator that takes a muted string for a sounded open string.
validate_mutedSounds(fing, rootPc, chordSet, open) ==
    IF \E k \in 1..Len(fing) : fing[k][1] \notin 1..Len(open)
    THEN [ok |-> FALSE, error |-> "StringIndexOutOfRange"]
    ELSE IF \E j, k \in 1..Len(fing) : j # k /\ fing[j][1] = fing[k][1]
    THEN [ok |-> FALSE, error |-> "DuplicateStringEntry"]
    ELSE IF \E k \in 1..Len(fing) :
              Transpose(open[fing[k][1]], IF fing[k][2] < 0 THEN 0 ELSE fing[k][2]) \notin chordSet
    THEN [ok |-> FALSE, error |-> "NoteNotInChord"]
    ELSE [ok |-> TRUE, statuses |-> [k \in 1..Len(fing) |-> StatusOf(fing[k], rootPc, open)]]

\* A validator that keeps the last of two entries on one string instead of
\* failing.
validate_lastWins(fing, rootPc, chordSet, open) ==
    IF \E k \in 1..Len(fing) : fing[k][1] \notin 1..Len(open)
    THEN [ok |-> FALSE, error |-> "StringIndexOutOfRange"]
    ELSE IF \E k \in 1..Len(fing) :
              fing[k][2] >= 0 /\ Transpose(open[fing[k][1]], fing[k][2]) \notin chordSet
    THEN [ok |-> FALSE, error |-> "NoteNotInChord"]
    ELSE [ok |-> TRUE, statuses |-> [k \in 1..Len(fing) |-> StatusOf(fing[k], rootPc, open)]]

\* validate(voicing, chordSet, tuning): the three checks in the order the
\* contract lists them, then the per-string statuses.
validate(fing, rootPc, chordSet, open) ==
    IF \E k \in 1..Len(fing) : fing[k][1] \notin 1..Len(open)
    THEN [ok |-> FALSE, error |-> "StringIndexOutOfRange"]
    ELSE IF \E j, k \in 1..Len(fing) : j # k /\ fing[j][1] = fing[k][1]
    THEN [ok |-> FALSE, error |-> "DuplicateStringEntry"]
    ELSE IF \E k \in 1..Len(fing) :
              fing[k][2] >= 0 /\ Transpose(open[fing[k][1]], fing[k][2]) \notin chordSet
    THEN [ok |-> FALSE, error |-> "NoteNotInChord"]
    ELSE [ok |-> TRUE, statuses |-> [k \in 1..Len(fing) |-> StatusOf(fing[k], rootPc, open)]]

\* validate for the chord and tuning of the state.
ValidateHere(fing) ==
    validate(fing, PitchOf(chordRoot),
             resolveChord(PitchOf(chordRoot), chordType.intervals), OpenPitches(tuning))

\* POST /voicings/{tuning}/{chord_type}/{root_note}: create or update the
\* voicing of that name when it validates; the response is ok exactly then.
AddVoicing(lib, v) ==
    IF ~ValidateHere(v.fingering).ok THEN lib
    ELSE IF \E k \in 1..Len(lib) : lib[k].name = v.name
    THEN [k \in 1..Len(lib) |-> IF lib[k].name = v.name THEN v ELSE lib[k]]
    ELSE Append(lib, v)

(***************************************************************************)
(* FretboardMapper of the resolution engine.                                *)
(***************************************************************************)
\* buildGrid(tuning, maxFret): for each string and each fret in 0..maxFret the
\* cell's pitch class; the cell of fret f is at position f + 1.
buildGrid(tun, maxFret) ==
    [s \in 1..Len(tun) |-> [k \in 1..(maxFret + 1) |-> Transpose(PitchOf(tun[s]), k - 1)]]

\* annotate(grid, scaleSet, chordSet, scaleRoot, chordRoot): the same shape,
\* each cell with its sharp-based name and its flags.  An empty chordSet is
\* no chord context.
annotate(grid, scaleSet, chordSet, scaleRootPc, chordRootPc) ==
    [s \in DOMAIN grid |-> [k \in DOMAIN grid[s] |->
        LET p == grid[s][k]
            isInScale == p \in scaleSet
            isInChord == p \in chordSet
            chordContext == chordSet # {}
        IN  [note |-> At(SHARP_NOTES, p),
             is_in_scale |-> isInScale,
             is_in_chord |-> isInChord,
             is_root |-> (isInChord /\ p = chordRootPc)
                           \/ (~chordContext /\ isInScale /\ p = scaleRootPc)]]]

\* GET /fretboard/visualize-scale: the grid annotated with the scale alone.
visualizeScale(tun, maxFret, rootName, scale) ==
    annotate(buildGrid(tun, maxFret), resolveScale(PitchOf(rootName), scale.intervals),
             {}, PitchOf(rootName), PitchOf(rootName))

\* GET /fretboard/visualize-chord with a scale: the grid annotated with both.
visualizeChord(tun, maxFret, chordRootName, type, scaleRootName, scale) ==
    annotate(buildGrid(tun, maxFret), resolveScale(PitchOf(scaleRootName), scale.intervals),
             resolveChord(PitchOf(chordRootName), type.intervals),
             PitchOf(scaleRootName), PitchOf(chordRootName))

\* GET /notes/{root}/{chord type}: the chord's note names, sharp-based.
chordNotesOf(chordRootName, type) ==
    [k \in 1..Len(type.intervals) |->
        At(SHARP_NOTES, Transpose(PitchOf(chordRootName), type.intervals[k]))]

\* GET /scales/{root}/{scale}/chords: the names of the diatonic chords.
chordsInScale(rootName, scale, cat) ==
    LET found == diatonicChords(PitchOf(rootName), scale.intervals, cat)
    IN  [k \in 1..Len(found) |-> <<At(SHARP_NOTES, found[k].root), found[k].type.name>>]

(***************************************************************************)
(* ChordEditor.tsx                                                          *)
(***************************************************************************)
NEW_VOICING_OPTION == "Create New Voicing..."

\* Array.prototype.findIndex: the first 0-based position that passes, or -1.
FindIndex(arr, Test(_)) ==
    IF \E k \in 1..Len(arr) : Test(arr[k])
    THEN (CHOOSE k \in 1..Len(arr) : Test(arr[k]) /\ \A j \in 1..(k-1) : ~Test(arr[j])) - 1
    ELSE -1

\* arr.splice(i, 1), i 0-based.
Splice(arr, i) == [k \in 1..(Len(arr) - 1) |-> IF k <= i THEN arr[k] ELSE arr[k + 1]]

\* arr[i] = x, i 0-based.
SetAt(arr, i, x) == [arr EXCEPT ![i + 1] = x]

\* A handler that stores the remove button's -1 as a finger.
FingerSelected_storesRemove(fing, active, finger) ==
    LET string == active[1]
        fret == active[2]
        onFret(e) == e[1] = string /\ e[2] = fret
        existingIndex == FindIndex(fing, onFret)
    IN  IF existingIndex > -1
        THEN SetAt(fing, existingIndex, <<string, fret, finger>>)
        ELSE Append(fing, <<string, fret, finger>>)

\* The fingering handleFingerSelect(finger) sets, for the active fret.
FingerSelected(fing, active, finger) ==
    LET string == active[1]
        fret == active[2]
        onFret(e) == e[1] = string /\ e[2] = fret
        existingIndex == FindIndex(fing, onFret)
    IN  IF finger = -1
        THEN (IF existingIndex > -1 THEN Splice(fing, existingIndex) ELSE fing)
        ELSE (IF existingIndex > -1
              THEN SetAt(fing, existingIndex, <<string, fret, finger>>)
              ELSE Append(fing, <<string, fret, finger>>))

\* A strum toggle that switches an entry between open and muted and removes
\* only a fretted one.
StrumToggled_openMuted(fing, stringId) ==
    LET onString(e) == e[1] = stringId
        existingIndex == FindIndex(fing, onString)
    IN  IF existingIndex > -1
        THEN (IF fing[existingIndex + 1][2] = 0
              THEN SetAt(fing, existingIndex, <<stringId, -1, 0>>)
              ELSE IF fing[existingIndex + 1][2] = -1
              THEN SetAt(fing, existingIndex, <<stringId, 0, 0>>)
              ELSE Splice(fing, existingIndex))
        ELSE Append(fing, <<stringId, 0, 0>>)

\* The fingering handleStrumToggle(stringId) sets.
StrumToggled(fing, stringId) ==
    LET onString(e) == e[1] = stringId
        existingIndex == FindIndex(fing, onString)
    IN  IF existingIndex > -1
        THEN (IF fing[existingIndex + 1][2] = 0
              THEN SetAt(fing, existingIndex, <<stringId, -1, 0>>)
              ELSE Splice(fing, existingIndex))
        ELSE Append(fing, <<stringId, 0, 0>>)

(***************************************************************************)
(* Fretboard.tsx                                                            *)
(***************************************************************************)
\* A strum indicator that shows O for a muted string and X for an open one.
strumIndicator_swapped(displayFingering, stringNum) ==
    LET onString(e) == e[1] = stringNum
        found == FindIndex(displayFingering, onString)
    IN  IF found = -1 THEN " "
        ELSE LET fret == displayFingering[found + 1][2]
             IN  IF fret = 0 THEN "X" ELSE IF fret = -1 THEN "O" ELSE " "

\* A strum indicator that reads the first entry of the fingering, whatever its
\* string.
strumIndicator_firstEntry(displayFingering, stringNum) ==
    IF Len(displayFingering) = 0 THEN " "
    ELSE LET fret == displayFingering[1][2]
         IN  IF fret = 0 THEN "O" ELSE IF fret = -1 THEN "X" ELSE " "

\* The indicator above a string: displayFingering.find(([s]) => s === stringNum),
\* then 'O' for fret 0, 'X' for fret -1, ' ' otherwise.
strumIndicator(displayFingering, stringNum) ==
    LET onString(e) == e[1] = stringNum
        found == FindIndex(displayFingering, onString)
    IN  IF found = -1 THEN " "
        ELSE LET fret == displayFingering[found + 1][2]
             IN  IF fret = 0 THEN "O" ELSE IF fret = -1 THEN "X" ELSE " "

\* The ascending list of a set of integers.
RECURSIVE SortAsc(_)
SortAsc(S) ==
    IF S = {} THEN <<>>
    ELSE LET m == CHOOSE x \in S : \A y \in S : x <= y
         IN  <<m>> \o SortAsc(S \ {m})

\* fretboardData[stringNum]?.[fret]
noteInfoAt(data, stringNum, fret) ==
    IF stringNum \in DOMAIN data /\ (fret + 1) \in DOMAIN data[stringNum]
    THEN data[stringNum][fret + 1] ELSE NoCell

\* Object.keys(fretboardData).map(Number).sort((b, a) => b - a)
stringNumbers(data) == SortAsc(DOMAIN data)

\* A layout of frets 0..12 whatever the data holds, as the first Fretboard's.
numFrets_fixed(data) == 13

\* fretboardData[stringNumbers[0]]?.length || 25
numFrets(data) ==
    LET first == IF Len(stringNumbers(data)) > 0 THEN data[stringNumbers(data)[1]] ELSE <<>>
    IN  IF Len(first) # 0 THEN Len(first) ELSE 25

\* Array.from({ length: numFrets }, (_, i) => i)
fretNumbers(data) == [i \in 1..numFrets(data) |-> i - 1]

\* getDisplayFingering of a fretboard that is not being edited.
getDisplayFingering(selectedVoicing) ==
    IF selectedVoicing # NoVoicing THEN selectedVoicing.fingering ELSE <<>>

\* The highlight classes of one cell (highlighting is not disabled).
highlightClasses(noteInfo, scaleRootNote, chordRootNote, validNotes) ==
    {"fret-highlight"} \cup
    (IF scaleRootNote # ""
     THEN IF noteInfo.is_in_scale
          THEN {IF noteInfo.note = scaleRootNote
                THEN "scale-root-highlight" ELSE "in-scale-highlight"}
          ELSE {}
     ELSE IF noteInfo.note \in Range(validNotes)
          THEN {IF noteInfo.note = chordRootNote
                THEN "scale-root-highlight" ELSE "in-scale-highlight"}
          ELSE {})

\* The note marker classes of one cell.
noteMarkerClasses(noteInfo, stringNum, fret, selectedVoicing, validNotes, chordRootNote, isEditable) ==
    LET displayFingering == getDisplayFingering(selectedVoicing)
        showAllTonesMode == selectedVoicing = NoVoicing /\ Len(validNotes) > 0 /\ ~isEditable
        isFrettedByVoicing ==
            \E k \in 1..Len(displayFingering) :
                displayFingering[k][1] = stringNum /\ displayFingering[k][2] = fret
        isFrettedByAllTones == showAllTonesMode /\ noteInfo.note \in Range(validNotes)
        isFretted == isFrettedByVoicing \/ isFrettedByAllTones
    IN  {"note-marker"} \cup
        (IF isFretted
         THEN {"fretted"} \cup (IF noteInfo.note = chordRootNote THEN {"chord-root"} ELSE {})
         ELSE {})

(***************************************************************************)
(* Earlier Fretboard components: renderFrets.                               *)
(***************************************************************************)
DEFAULT_STRINGS == 6
DEFAULT_FRETS == 24
LEGACY_DEFAULT_FRETS == 12

\* renderFrets of the first Fretboard, for one fret of one string row: the
\* classes of the fret.
renderFrets014_scaleFirst(data, stringIndex, fretIndex) ==
    LET note == noteInfoAt(data, stringIndex + 1, fretIndex)
    IN  {"fret"} \cup
        (IF note # NoCell
         THEN (IF note.is_in_scale THEN {"in-scale"}
               ELSE IF note.is_in_chord THEN {"in-chord"} ELSE {})
              \cup (IF note.is_root THEN {"root-note"} ELSE {})
         ELSE {})
renderFrets014(data, stringIndex, fretIndex) ==
    LET note == noteInfoAt(data, stringIndex + 1, fretIndex)
    IN  {"fret"} \cup
        (IF note # NoCell
         THEN (IF note.is_in_chord THEN {"in-chord"}
               ELSE IF note.is_in_scale THEN {"in-scale"} ELSE {})
              \cup (IF note.is_root THEN {"root-note"} ELSE {})
         ELSE {})

\* voicingMap.get(`${stringId}-${fretIndex}`): <<finger>> of the last entry of
\* the voicing at that string and fret, <<>> for undefined.
voicingFinger(selectedVoicing, stringId, fretIndex) ==
    IF selectedVoicing = NoVoicing THEN <<>>
    ELSE LET fg == selectedVoicing.fingering
             hits == {k \in 1..Len(fg) : fg[k][1] = stringId /\ fg[k][2] = fretIndex}
         IN  IF hits = {} THEN <<>>
             ELSE <<fg[CHOOSE k \in hits : \A j \in hits : j <= k][3]>>

\* renderFrets of the Fretboard with voicings, for one fret of one string row:
\* the classes of the fret and whether it carries the chord marker and the
\* chord-root marker.
renderFrets016(data, stringIndex, fretIndex, selectedVoicing, scaleRootNote, chordRootNote, validNotes) ==
    LET note == noteInfoAt(data, stringIndex + 1, fretIndex)
        stringId == DEFAULT_STRINGS - stringIndex
        finger == voicingFinger(selectedVoicing, stringId, fretIndex)
        fingered == finger # <<>> /\ finger[1] >= 0
        scaleMode == note # NoCell /\ scaleRootNote # ""
        chordMode == note # NoCell /\ scaleRootNote = "" /\ validNotes # NoNotes
        isNoteInChord == chordMode /\ note.note \in Range(validNotes)
        isChordNote ==
            IF scaleMode
            THEN (IF selectedVoicing # NoVoicing THEN fingered ELSE note.is_in_chord)
            ELSE IF chordMode
            THEN (IF selectedVoicing # NoVoicing THEN fingered ELSE isNoteInChord)
            ELSE FALSE
    IN  [classes |->
            {"fret"}
            \cup (IF scaleMode /\ note.is_in_scale THEN {"in-scale"} ELSE {})
            \cup (IF scaleMode /\ note.note = scaleRootNote THEN {"scale-root"} ELSE {})
            \cup (IF isNoteInChord THEN {"in-scale"} ELSE {})
            \cup (IF chordMode /\ note.note = chordRootNote THEN {"scale-root"} ELSE {}),
         isChordNote |-> isChordNote,
         isChordRoot |-> isChordNote /\ note.note = chordRootNote]

(***************************************************************************)
(* Inputs.                                                                  *)
(***************************************************************************)
AccidentalTypes == {"sharps", "flats"}

\* Names that are no canonical spelling: canonical spellings in another letter
\* case, a letter that names no note, and the empty string.
OtherCaseNames == {"db", "c#", "BB"}
UnknownNames == {"H", ""}
\* Names handed to formatNote and unformatNote: every canonical spelling, and
\* the names above.
NoteInputs == Range(SHARP_NOTES) \cup Range(FLAT_NOTES) \cup OtherCaseNames \cup UnknownNames

\* Interval lists: every list of up to MaxLen intervals in -MaxDown..MaxInterval,
\* and the Major scale.
Major == <<0, 2, 4, 5, 7, 9, 11>>
RECURSIVE SeqsUpTo(_, _)
SeqsUpTo(S, n) ==
    IF n = 0 THEN {<<>>}
    ELSE LET shorter == SeqsUpTo(S, n - 1)
         IN  shorter \cup {Append(q, x) : q \in {r \in shorter : Len(r) = n - 1}, x \in S}
IntervalLists == SeqsUpTo((0 - MaxDown)..MaxInterval, MaxLen) \cup {Major}

\* Scales: every interval set of ScaleSize intervals in 0..11 that holds the root.
ScaleLists == {SortAsc(S \cup {0}) : S \in {T \in SUBSET (1..11) : Cardinality(T) = ScaleSize - 1}}

\* Chord types.
MajorType == [name |-> "Major", intervals |-> <<0, 4, 7>>]
MinorType == [name |-> "Minor", intervals |-> <<0, 3, 7>>]
DimType == [name |-> "Diminished", intervals |-> <<0, 3, 6>>]
ChordTypes == {MajorType, MinorType, DimType}
\* Catalogs: every list of up to MaxCatalog distinct chord types.
Catalogs == {c \in SeqsUpTo(ChordTypes, MaxCatalog) : NoDup(c)}

\* The tuning of the chord editor and the validator: two strings.
EdTuning == <<"E", "B">>
\* Most triples of a fingering: the editor and the validator are followed up to
\* fingerings of as many triples as the tuning has strings.
MaxEntries == Len(EdTuning)
\* The chords edited and validated.
EdChordTypes == {MajorType, MinorType}
\* The roots of the chords validated: one that no open string sounds, and the
\* pitch of the open string 1.
ValidatedRoots == {"C", "E"}

\* Fingering triples handed to validate: string numbers from one below to one
\* above the tuning's range, frets from muted to MaxFret, fingers 0..MaxFinger.
TripleInputs ==
    {<<s, f, fin>> : s \in 0..(Len(EdTuning) + 1), f \in (-1)..MaxFret, fin \in 0..MaxFinger}
FingeringInputs == SeqsUpTo(TripleInputs, MaxEntries)

\* Names typed in the Voicing Name field.
VoicingNames == {"v1"}
\* What the backend stores for the chord at start: nothing, or one voicing that
\* mutes string 2 and plays string 1 open.
FactoryLibraries == {<<>>, <<[name |-> "v1", fingering |-> <<<<2, -1, 0>>, <<1, 0, 0>>>>]>>}

\* The pages that show a fretboard for a scale.
PAGES == {"App", "ScaleVisualizer"}
\* Tunings, lowest string first.
StandardTuning == <<"E", "A", "D", "G", "B", "E">>
BassTuning == <<"E", "A", "D", "G">>
PageTunings == {StandardTuning, BassTuning}
\* The highest frets the backend is configured with.
MaxFrets == {LEGACY_DEFAULT_FRETS, DEFAULT_FRETS}
\* Scales of the Scale selector.
MajorScale == [name |-> "Major", intervals |-> Major]
MinorScale == [name |-> "Minor", intervals |-> <<0, 2, 3, 5, 7, 8, 10>>]
PageScales == {MajorScale, MinorScale}
\* The chord-type catalog behind the Chord selector.
PageCatalog == <<MajorType, MinorType, DimType>>
TypeNamed(n) == CHOOSE t \in ChordTypes : t.name = n
\* The voicings stored for a chord: its root fretted on string 1, and, on a
\* six-string tuning, also its root fretted on strings 1 and 2.
StoredVoicings(tun, chordRootName) ==
    LET fretOf(st) == CHOOSE f \in 0..11 : Transpose(PitchOf(tun[st]), f) = PitchOf(chordRootName)
        entry(st) == <<st, fretOf(st), IF fretOf(st) = 0 THEN 0 ELSE st>>
    IN  IF Len(tun) < 6
        THEN <<[name |-> "Root on string 1", fingering |-> <<entry(1)>>]>>
        ELSE <<[name |-> "Root on string 1", fingering |-> <<entry(1)>>],
               [name |-> "Roots on strings 1 and 2", fingering |-> <<entry(1), entry(2)>>]>>

SAVED == "Voicing saved successfully!"
SAVE_FAILED == "Failed to save voicing."

(***************************************************************************)
(* The idle values of each group of variables.                              *)
(***************************************************************************)
NotesIdle ==
    /\ accidentalType = "sharps" /\ pitch = 0 /\ spelled = None /\ parsed = <<>>
    /\ noteIn = "C" /\ formatted = None /\ unformatted = None
ResolveIdle == root = "C" /\ intervals = <<>> /\ notes = <<>> /\ notesDone = FALSE
DiatonicIdle ==
    /\ scaleRoot = 0 /\ scaleIntervals = <<>> /\ catalog = <<>>
    /\ chords = <<>> /\ chordsDone = FALSE
ChordIdle == tuning = <<>> /\ chordRoot = "C" /\ chordType = MajorType
ValidateIdle == vFingering = <<>> /\ vResult = NoResult
EditorIdle ==
    /\ fingering = <<>> /\ activeFret = NoFret /\ voicingName = ""
    /\ voicings = <<>> /\ library = <<>> /\ alert = None
FretIdle ==
    /\ page = "App" /\ displayAccidental = "sharps" /\ gridMaxFret = 0
    /\ selectedTuning = <<>> /\ selectedRoot = "C" /\ selectedScale = NoScale
    /\ selectedChord = NoChord /\ fretboardData = NoData /\ chordNotes = <<>>
    /\ pageVoicings = <<>> /\ selectedVoicingIndex = -1

TransposeIdle ==
    /\ pc = 0 /\ shiftA = 0 /\ shiftB = 0
    /\ afterA = <<>> /\ afterAB = <<>> /\ afterSum = <<>>
VisibilityIdle ==
    /\ isIntervalVisible = TRUE /\ isFingeringVisible = TRUE
    /\ intervalClicks = 0 /\ fingeringClicks = 0
    /\ intervalBefore = TRUE /\ fingeringBefore = TRUE
NavIdle == navHistory = <<<<>>>>
SaveLoadIdle ==
    /\ allData = NoAllData /\ selections = EmptySelections /\ sentSelections = NoSelections
LoadIdle ==
    /\ isLoading = FALSE /\ pendingFetches = 0 /\ pendingResets = 0 /\ pendingLoads = 0
    /\ fetchesStarted = 0 /\ accepted = 0 /\ declined = 0
    /\ resetsSent = 0 /\ resetsSucceeded = 0
SettingsIdle ==
    /\ localStorage = [handedness |-> <<>>, accidental |-> <<>>]
    /\ handedness = "right" /\ contextAccidentalType = "sharps"
    /\ effectsPending = FALSE /\ toggles = 0 /\ reloads = 0
InFlightIdle ==
    /\ shownChords = <<>> /\ chordFetches = {} /\ dataFetches = {}
    /\ sent = 0 /\ changes = 0
IntervalIdle ==
    /\ intervalEditor = "scale" /\ editedName = "" /\ selectedIntervals = <<>>
    /\ sentIntervals = NoPayload /\ intervalAlert = None

(***************************************************************************)
(* SpecNotes: a note is spelled for display and read back for the API.      *)
(***************************************************************************)
NotesInit ==
    /\ accidentalType \in AccidentalTypes
    /\ pitch \in PitchClasses
    /\ noteIn \in NoteInputs
    /\ spelled = None /\ parsed = <<>> /\ formatted = None /\ unformatted = None
    /\ ResolveIdle /\ DiatonicIdle /\ ChordIdle /\ ValidateIdle /\ EditorIdle /\ FretIdle /\ IntervalIdle /\ TransposeIdle /\ VisibilityIdle /\ NavIdle /\ SaveLoadIdle /\ LoadIdle /\ SettingsIdle /\ InFlightIdle

\* noteOptions = getNoteNames(accidentalType); the selector shows noteOptions[pitch].
Spell ==
    /\ spelled = None
    /\ spelled' = At(getNoteNames(accidentalType), pitch)
    /\ UNCHANGED <<accidentalType, pitch, parsed, noteIn, formatted, unformatted, notesFrame>>

\* rootForAPI = unformatNote(selectedRoot), looked up in NOTES.
Parse ==
    /\ spelled # None /\ parsed = <<>>
    /\ parsed' = <<IndexOf(NOTES, unformatNote(spelled))>>
    /\ UNCHANGED <<accidentalType, pitch, spelled, noteIn, formatted, unformatted, notesFrame>>

FormatNote ==
    /\ formatted = None
    /\ formatted' = formatNote(noteIn, accidentalType)
    /\ UNCHANGED <<accidentalType, pitch, spelled, parsed, noteIn, unformatted, notesFrame>>

UnformatNote ==
    /\ formatted # None /\ unformatted = None
    /\ unformatted' = unformatNote(formatted)
    /\ UNCHANGED <<accidentalType, pitch, spelled, parsed, noteIn, formatted, notesFrame>>

NotesNext == Spell \/ Parse \/ FormatNote \/ UnformatNote
SpecNotes == NotesInit /\ [][NotesNext]_vars

(***************************************************************************)
(* SpecResolve: the scale editor previews the notes of an interval list.    *)
(***************************************************************************)
ResolveInit ==
    /\ root \in Range(NOTES)
    /\ intervals \in IntervalLists
    /\ notes = <<>> /\ notesDone = FALSE
    /\ NotesIdle /\ DiatonicIdle /\ ChordIdle /\ ValidateIdle /\ EditorIdle /\ FretIdle /\ IntervalIdle /\ TransposeIdle /\ VisibilityIdle /\ NavIdle /\ SaveLoadIdle /\ LoadIdle /\ SettingsIdle /\ InFlightIdle

\* setPreviewNotes(getNotesFromIntervals(previewRoot, intervals))
Resolve ==
    /\ ~notesDone
    /\ notes' = getNotesFromIntervals(root, intervals)
    /\ notesDone' = TRUE
    /\ UNCHANGED <<root, intervals, resolveFrame>>

ResolveNext == Resolve
SpecResolve == ResolveInit /\ [][ResolveNext]_vars

(***************************************************************************)
(* SpecDiatonic: the chords of a catalog that fit in a scale are listed.    *)
(***************************************************************************)
DiatonicInit ==
    /\ scaleRoot \in PitchClasses
    /\ scaleIntervals \in ScaleLists
    /\ catalog \in Catalogs
    /\ chords = <<>> /\ chordsDone = FALSE
    /\ NotesIdle /\ ResolveIdle /\ ChordIdle /\ ValidateIdle /\ EditorIdle /\ FretIdle /\ IntervalIdle /\ TransposeIdle /\ VisibilityIdle /\ NavIdle /\ SaveLoadIdle /\ LoadIdle /\ SettingsIdle /\ InFlightIdle

ListDiatonicChords ==
    /\ ~chordsDone
    /\ chords' = diatonicChords(scaleRoot, scaleIntervals, catalog)
    /\ chordsDone' = TRUE
    /\ UNCHANGED <<scaleRoot, scaleIntervals, catalog, diatonicFrame>>

DiatonicNext == ListDiatonicChords
SpecDiatonic == DiatonicInit /\ [][DiatonicNext]_vars

(***************************************************************************)
(* SpecValidate: a fingering is validated against a chord and a tuning.     *)
(***************************************************************************)
ValidateInit ==
    /\ tuning = EdTuning /\ chordRoot \in ValidatedRoots /\ chordType \in EdChordTypes
    /\ vFingering \in FingeringInputs /\ vResult = NoResult
    /\ NotesIdle /\ ResolveIdle /\ DiatonicIdle /\ EditorIdle /\ FretIdle /\ IntervalIdle /\ TransposeIdle /\ VisibilityIdle /\ NavIdle /\ SaveLoadIdle /\ LoadIdle /\ SettingsIdle /\ InFlightIdle

RunValidate ==
    /\ vResult = NoResult
    /\ vResult' = ValidateHere(vFingering)
    /\ UNCHANGED <<vFingering, chordVars, validateFrame>>

ValidateNext == RunValidate
SpecValidate == ValidateInit /\ [][ValidateNext]_vars

(***************************************************************************)
(* SpecEditor: the chord editor's voicing handlers.  alert() is modal: no   *)
(* handler runs while one is on screen.  vFingering and vResult hold the    *)
(* save request and the backend's validation of it until the alert is       *)
(* dismissed.                                                               *)
(***************************************************************************)
EditorInit ==
    /\ tuning = EdTuning /\ chordRoot = "C" /\ chordType = MajorType
    /\ fingering = <<>> /\ activeFret = NoFret /\ voicingName = ""
    /\ voicings = <<>> /\ library \in FactoryLibraries /\ alert = None
    /\ ValidateIdle
    /\ NotesIdle /\ ResolveIdle /\ DiatonicIdle /\ FretIdle /\ IntervalIdle /\ TransposeIdle /\ VisibilityIdle /\ NavIdle /\ SaveLoadIdle /\ LoadIdle /\ SettingsIdle /\ InFlightIdle

\* fetchChordData: the voicings are fetched and the voicing fields reset.
FetchChordData ==
    /\ alert = None
    /\ voicings' = library
    /\ voicingName' = ""
    /\ fingering' = <<>>
    /\ activeFret' = NoFret
    /\ UNCHANGED <<library, alert, chordVars, editorFrame>>

HandleSelectVoicing(name) ==
    /\ alert = None
    /\ activeFret' = NoFret
    /\ IF name = NEW_VOICING_OPTION
       THEN voicingName' = "" /\ fingering' = <<>>
       ELSE LET named(v) == v.name = name
                i == FindIndex(voicings, named)
            IN  IF i > -1
                THEN voicingName' = voicings[i + 1].name /\ fingering' = voicings[i + 1].fingering
                ELSE UNCHANGED <<voicingName, fingering>>
    /\ UNCHANGED <<voicings, library, alert, chordVars, editorFrame>>

SetVoicingName(name) ==
    /\ alert = None
    /\ voicingName' = name
    /\ UNCHANGED <<fingering, activeFret, voicings, library, alert,
                   chordVars, editorFrame>>

HandleFretClick(string, fret) ==
    /\ alert = None
    /\ activeFret' = (IF activeFret = <<string, fret>> THEN NoFret ELSE <<string, fret>>)
    /\ UNCHANGED <<fingering, voicingName, voicings, library, alert,
                   chordVars, editorFrame>>

HandleFingerSelect(finger) ==
    /\ alert = None
    /\ activeFret # NoFret
    /\ Len(FingerSelected(fingering, activeFret, finger)) <= MaxEntries
    /\ fingering' = FingerSelected(fingering, activeFret, finger)
    /\ activeFret' = NoFret
    /\ UNCHANGED <<voicingName, voicings, library, alert,
                   chordVars, editorFrame>>

HandleStrumToggle(stringId) ==
    /\ alert = None
    /\ Len(StrumToggled(fingering, stringId)) <= MaxEntries
    /\ fingering' = StrumToggled(fingering, stringId)
    /\ UNCHANGED <<activeFret, voicingName, voicings, library, alert,
                   chordVars, editorFrame>>

\* handleSaveVoicing up to its alert: the voicing is posted and the backend
\* validates it and stores it or refuses it.
HandleSaveVoicing ==
    /\ alert = None
    /\ voicingName # ""
    /\ vFingering' = fingering
    /\ vResult' = ValidateHere(fingering)
    /\ library' = AddVoicing(library, [name |-> voicingName, fingering |-> fingering])
    /\ alert' = (IF ValidateHere(fingering).ok THEN SAVED ELSE SAVE_FAILED)
    /\ UNCHANGED <<fingering, activeFret, voicingName, voicings,
                   chordVars, noteVars, resolveVars, diatonicVars, fretVars, intervalVars, transposeVars, visibilityVars, navVars, saveLoadVars, loadVars, settingsVars, inFlightVars>>

\* The alert is dismissed and handleSaveVoicing finishes: after a save that
\* succeeded the voicings are fetched again.
DismissAlert ==
    /\ alert # None
    /\ alert' = None
    /\ vFingering' = <<>> /\ vResult' = NoResult
    /\ voicings' = (IF alert = SAVED THEN library ELSE voicings)
    /\ UNCHANGED <<fingering, activeFret, voicingName, library, chordVars,
                   noteVars, resolveVars, diatonicVars, fretVars, intervalVars, transposeVars, visibilityVars, navVars, saveLoadVars, loadVars, settingsVars, inFlightVars>>

EditorNext ==
    \/ FetchChordData
    \/ \E name \in {NEW_VOICING_OPTION} \cup {voicings[k].name : k \in 1..Len(voicings)} :
          HandleSelectVoicing(name)
    \/ \E name \in VoicingNames \cup {""} : SetVoicingName(name)
    \/ \E string \in 1..Len(tuning), fret \in 0..MaxFret : HandleFretClick(string, fret)
    \/ \E finger \in (-1)..MaxFinger : HandleFingerSelect(finger)
    \/ \E stringId \in 1..Len(tuning) : HandleStrumToggle(stringId)
    \/ HandleSaveVoicing
    \/ DismissAlert
SpecEditor == EditorInit /\ [][EditorNext]_vars

(***************************************************************************)
(* SpecFretboard: App and ScaleVisualizer choose a root, a scale, a tuning,  *)
(* a chord and a voicing, and fetch the grid the Fretboard renders.  Each   *)
(* selection is followed through the effects it triggers.  Init is the page *)
(* after its mount effects: first scale, first tuning, no chord.            *)
(***************************************************************************)
\* The Root Note options of the page.
noteOptions == IF page = "App" THEN NOTES ELSE getNoteNames(displayAccidental)

\* The root the page hands to the API.
rootForAPI(rootName) == IF page = "App" THEN rootName ELSE unformatNote(rootName)

\* The chords state: the chords of the Chord selector.
pageChords(rootName, scale) == chordsInScale(rootForAPI(rootName), scale, PageCatalog)

\* selectedChord ? selectedChord.split(' ')[0] : null
chordRootNoteOf(chord) == IF chord # NoChord THEN chord[1] ELSE None

\* selectedVoicingIndex > -1 ? voicings[selectedVoicingIndex] : null
currentVoicing ==
    IF selectedVoicingIndex > -1 THEN pageVoicings[selectedVoicingIndex + 1] ELSE NoVoicing

\* The chord left selected once the chords of a new root or scale arrived:
\* App clears it, ScaleVisualizer keeps it when the new list has it.
ChordAfter(rootName, scale) ==
    IF page = "App" THEN NoChord
    ELSE IF selectedChord # NoChord /\ selectedChord \in Range(pageChords(rootName, scale))
    THEN selectedChord ELSE NoChord

\* fetchFretboard of App and fetchFretboardAndChordData of ScaleVisualizer.
FetchFretboard(rootName, scale, tun, chord) ==
    /\ selectedRoot' = rootName /\ selectedScale' = scale
    /\ selectedTuning' = tun /\ selectedChord' = chord
    /\ selectedVoicingIndex' = -1
    /\ IF page = "App"
       THEN /\ fretboardData' =
                 (IF chord # NoChord
                  THEN visualizeChord(tun, gridMaxFret, chord[1], TypeNamed(chord[2]), rootName, scale)
                  ELSE visualizeScale(tun, gridMaxFret, rootName, scale))
            /\ pageVoicings' = (IF chord # NoChord THEN StoredVoicings(tun, chord[1]) ELSE <<>>)
            /\ chordNotes' = chordNotes
       ELSE /\ fretboardData' = visualizeScale(tun, gridMaxFret, unformatNote(rootName), scale)
            /\ pageVoicings' =
                 (IF chord # NoChord THEN StoredVoicings(tun, unformatNote(chord[1])) ELSE <<>>)
            /\ chordNotes' =
                 (IF chord # NoChord
                  THEN chordNotesOf(unformatNote(chord[1]), TypeNamed(chord[2])) ELSE <<>>)
    /\ UNCHANGED <<page, displayAccidental, gridMaxFret, fretFrame>>

FretboardInit ==
    /\ page \in PAGES
    /\ displayAccidental \in (IF page = "App" THEN {"sharps"} ELSE AccidentalTypes)
    /\ gridMaxFret \in MaxFrets
    /\ selectedTuning = StandardTuning /\ selectedRoot = "C" /\ selectedScale = MajorScale
    /\ selectedChord = NoChord
    /\ fretboardData = visualizeScale(StandardTuning, gridMaxFret, "C", MajorScale)
    /\ chordNotes = <<>> /\ pageVoicings = <<>> /\ selectedVoicingIndex = -1
    /\ NotesIdle /\ ResolveIdle /\ DiatonicIdle /\ ChordIdle /\ ValidateIdle /\ EditorIdle /\ IntervalIdle /\ TransposeIdle /\ VisibilityIdle /\ NavIdle /\ SaveLoadIdle /\ LoadIdle /\ SettingsIdle /\ InFlightIdle

SetSelectedRoot(rootName) ==
    /\ rootName # selectedRoot
    /\ FetchFretboard(rootName, selectedScale, selectedTuning, ChordAfter(rootName, selectedScale))

SetSelectedScale(scale) ==
    /\ scale # selectedScale
    /\ FetchFretboard(selectedRoot, scale, selectedTuning, ChordAfter(selectedRoot, scale))

SetSelectedTuning(tun) ==
    /\ tun # selectedTuning
    /\ FetchFretboard(selectedRoot, selectedScale, tun, selectedChord)

SetSelectedChord(chord) ==
    /\ chord # selectedChord
    /\ FetchFretboard(selectedRoot, selectedScale, selectedTuning, chord)

\* The accidental type is switched in the settings; the page re-renders.
SetAccidentalType(accType) ==
    /\ page = "ScaleVisualizer"
    /\ accType # displayAccidental
    /\ displayAccidental' = accType
    /\ UNCHANGED <<page, gridMaxFret, selectedTuning, selectedRoot, selectedScale, selectedChord,
                   fretboardData, chordNotes, pageVoicings, selectedVoicingIndex, fretFrame>>

ShowAllTones ==
    /\ Len(pageVoicings) > 0
    /\ selectedVoicingIndex' = -1
    /\ UNCHANGED <<page, displayAccidental, gridMaxFret, selectedTuning, selectedRoot,
                   selectedScale, selectedChord, fretboardData, chordNotes, pageVoicings, fretFrame>>

\* A Next Voicing that steps past the last voicing back to All Tones.
nextIndex_allTones(prev, length) == IF prev + 1 >= length THEN -1 ELSE prev + 1

\* (prev + 1) % voicings.length
nextIndex(prev, length) == JsRem(prev + 1, length)

\* (prev - 1 + voicings.length) % voicings.length
prevIndex(prev, length) == JsRem(prev - 1 + length, length)

HandleNextVoicing ==
    /\ Len(pageVoicings) > 0
    /\ selectedVoicingIndex' = nextIndex(selectedVoicingIndex, Len(pageVoicings))
    /\ UNCHANGED <<page, displayAccidental, gridMaxFret, selectedTuning, selectedRoot,
                   selectedScale, selectedChord, fretboardData, chordNotes, pageVoicings, fretFrame>>

HandlePrevVoicing ==
    /\ Len(pageVoicings) > 0
    /\ selectedVoicingIndex' = prevIndex(selectedVoicingIndex, Len(pageVoicings))
    /\ UNCHANGED <<page, displayAccidental, gridMaxFret, selectedTuning, selectedRoot,
                   selectedScale, selectedChord, fretboardData, chordNotes, pageVoicings, fretFrame>>

FretboardNext ==
    \/ \E rootName \in Range(noteOptions) : SetSelectedRoot(rootName)
    \/ \E scale \in PageScales : SetSelectedScale(scale)
    \/ \E tun \in PageTunings : SetSelectedTuning(tun)
    \/ \E chord \in {NoChord} \cup Range(pageChords(selectedRoot, selectedScale)) :
          SetSelectedChord(chord)
    \/ \E accType \in AccidentalTypes : SetAccidentalType(accType)
    \/ ShowAllTones
    \/ HandleNextVoicing
    \/ HandlePrevVoicing
SpecFretboard == FretboardInit /\ [][FretboardNext]_vars

(***************************************************************************)
(* SpecIntervals: the interval checkboxes of the scale editor and of the    *)
(* chord-type editor, and their Save buttons.                               *)
(***************************************************************************)
\* Array.from({ length: 12 }, (_, i) => i + 1)
ALL_INTERVALS == [k \in 1..12 |-> (k - 1) + 1]

IntervalEditors == {"scale", "chordType"}
\* Names typed into the name field.
EditedNames == {"", "Mine"}
\* The definition each editor's selector offers for editing.
StoredIntervals(editor) == IF editor = "scale" THEN MajorScale.intervals ELSE MajorType.intervals
StoredName(editor) == IF editor = "scale" THEN MajorScale.name ELSE MajorType.name

NAME_OR_INTERVAL_MISSING == "Please provide a name and select at least one interval."
DEFINITION_SAVED == "saved!"
DEFINITION_FAILED == "Failed to save."

\* prev.includes(n) ? prev.filter(num => num !== n) : [...prev, n]
Toggled(prev, n) ==
    IF n \in Range(prev) THEN SelectSeq(prev, LAMBDA num : num # n) ELSE Append(prev, n)

\* [...selected].sort((a, b) => a - b), for a list of distinct numbers
sortedIntervals(selected) == SortAsc(Range(selected))

IntervalsInit ==
    /\ intervalEditor \in IntervalEditors
    /\ editedName = "" /\ selectedIntervals = <<>>
    /\ sentIntervals = NoPayload /\ intervalAlert = None
    /\ NotesIdle /\ ResolveIdle /\ DiatonicIdle /\ ChordIdle /\ ValidateIdle /\ EditorIdle /\ FretIdle /\ TransposeIdle /\ VisibilityIdle /\ NavIdle /\ SaveLoadIdle /\ LoadIdle /\ SettingsIdle /\ InFlightIdle

\* onChange of the name field
SetEditedName(name) ==
    /\ intervalAlert = None
    /\ editedName' = name
    /\ UNCHANGED <<intervalEditor, selectedIntervals, sentIntervals, intervalAlert, intervalFrame>>

\* Selecting the stored definition loads its name and its intervals.
HandleSelectDefinition ==
    /\ intervalAlert = None
    /\ editedName' = StoredName(intervalEditor)
    /\ selectedIntervals' = StoredIntervals(intervalEditor)
    /\ UNCHANGED <<intervalEditor, sentIntervals, intervalAlert, intervalFrame>>

\* Selecting the "Create New ..." option empties the editor.
HandleSelectNew ==
    /\ intervalAlert = None
    /\ editedName' = "" /\ selectedIntervals' = <<>>
    /\ UNCHANGED <<intervalEditor, sentIntervals, intervalAlert, intervalFrame>>

\* handleIntervalChange(intervalNumber), from the checkbox of intervalNumber
HandleIntervalChange(intervalNumber) ==
    /\ intervalAlert = None
    /\ intervalNumber \in Range(selectedIntervals) \/ Len(selectedIntervals) < MaxSelected
    /\ selectedIntervals' = Toggled(selectedIntervals, intervalNumber)
    /\ UNCHANGED <<intervalEditor, editedName, sentIntervals, intervalAlert, intervalFrame>>

\* handleSaveScale / handleSaveChordType; ok is the backend's answer.
HandleSaveDefinition(ok) ==
    /\ intervalAlert = None
    /\ IF editedName = "" \/ Len(selectedIntervals) = 0
       THEN /\ intervalAlert' = NAME_OR_INTERVAL_MISSING
            /\ UNCHANGED <<sentIntervals, selectedIntervals>>
       ELSE /\ sentIntervals' = sortedIntervals(selectedIntervals)
            /\ intervalAlert' = (IF ok THEN DEFINITION_SAVED ELSE DEFINITION_FAILED)
            \* the scale editor selects the saved scale, which reloads it
            /\ selectedIntervals' =
                   (IF ok /\ intervalEditor = "scale"
                    THEN sortedIntervals(selectedIntervals) ELSE selectedIntervals)
    /\ UNCHANGED <<intervalEditor, editedName, intervalFrame>>

\* The alert is closed; the request it reported on is over.
DismissIntervalAlert ==
    /\ intervalAlert # None
    /\ intervalAlert' = None /\ sentIntervals' = NoPayload
    /\ UNCHANGED <<intervalEditor, editedName, selectedIntervals, intervalFrame>>

IntervalsNext ==
    \/ \E name \in EditedNames : SetEditedName(name)
    \/ HandleSelectDefinition
    \/ HandleSelectNew
    \/ \E n \in Range(ALL_INTERVALS) : HandleIntervalChange(n)
    \/ \E ok \in BOOLEAN : HandleSaveDefinition(ok)
    \/ DismissIntervalAlert
SpecIntervals == IntervalsInit /\ [][IntervalsNext]_vars

(***************************************************************************)
(* SpecTranspose: a pitch class is transposed by two numbers of semitones   *)
(* in turn, and by their sum.                                               *)
(***************************************************************************)
Shifts == (0 - MaxShift)..MaxShift

TransposeInit ==
    /\ pc \in PitchClasses /\ shiftA \in Shifts /\ shiftB \in Shifts
    /\ afterA = <<>> /\ afterAB = <<>> /\ afterSum = <<>>
    /\ NotesIdle /\ ResolveIdle /\ DiatonicIdle /\ ChordIdle /\ ValidateIdle /\ EditorIdle /\ FretIdle /\ IntervalIdle /\ VisibilityIdle /\ NavIdle /\ SaveLoadIdle /\ LoadIdle /\ SettingsIdle /\ InFlightIdle

TransposeByA ==
    /\ afterA = <<>>
    /\ afterA' = <<Transpose(pc, shiftA)>>
    /\ UNCHANGED <<pc, shiftA, shiftB, afterAB, afterSum, transposeFrame>>

TransposeByB ==
    /\ afterA # <<>> /\ afterAB = <<>>
    /\ afterAB' = <<Transpose(afterA[1], shiftB)>>
    /\ UNCHANGED <<pc, shiftA, shiftB, afterA, afterSum, transposeFrame>>

TransposeBySum ==
    /\ afterSum = <<>>
    /\ afterSum' = <<Transpose(pc, shiftA + shiftB)>>
    /\ UNCHANGED <<pc, shiftA, shiftB, afterA, afterAB, transposeFrame>>

TransposeNext == TransposeByA \/ TransposeByB \/ TransposeBySum
SpecTranspose == TransposeInit /\ [][TransposeNext]_vars

(***************************************************************************)
(* SpecVisibility: the Intervals and Fingerings toggle buttons of the       *)
(* navigation bar and the two providers behind them.                        *)
(***************************************************************************)
TOGGLE_BUTTONS == {"Intervals", "Fingerings"}

\* A navigation bar whose two buttons both call toggleIntervalVisibility.
onClick_shared(button) == "toggleIntervalVisibility"

\* onClick of each button
onClick(button) ==
    IF button = "Intervals" THEN "toggleIntervalVisibility" ELSE "toggleFingeringVisibility"

\* A toggle that hides and never shows again.
Flipped_hide(prev) == FALSE

\* prev => !prev
Flipped(prev) == ~prev

\* `... ${isVisible ? 'active' : ''}`
toggleClass(isVisible) == IF isVisible THEN "active" ELSE ""

\* useState(true) in both providers
VisibilityInit ==
    /\ isIntervalVisible = TRUE /\ isFingeringVisible = TRUE
    /\ intervalClicks = 0 /\ fingeringClicks = 0
    /\ intervalBefore = TRUE /\ fingeringBefore = TRUE
    /\ NotesIdle /\ ResolveIdle /\ DiatonicIdle /\ ChordIdle /\ ValidateIdle /\ EditorIdle /\ FretIdle /\ IntervalIdle /\ TransposeIdle /\ NavIdle /\ SaveLoadIdle /\ LoadIdle /\ SettingsIdle /\ InFlightIdle

\* toggleIntervalVisibility: setIsIntervalVisible(prev => !prev)
toggleIntervalVisibility ==
    /\ isIntervalVisible' = Flipped(isIntervalVisible)
    /\ UNCHANGED isFingeringVisible

\* toggleFingeringVisibility: setIsFingeringVisible(prev => !prev)
toggleFingeringVisibility ==
    /\ isFingeringVisible' = Flipped(isFingeringVisible)
    /\ UNCHANGED isIntervalVisible

\* A click on the Intervals button.
ClickIntervals ==
    /\ intervalClicks < MaxClicks
    /\ IF onClick("Intervals") = "toggleIntervalVisibility"
       THEN toggleIntervalVisibility ELSE toggleFingeringVisibility
    /\ intervalClicks' = intervalClicks + 1
    /\ intervalBefore' = isIntervalVisible
    /\ UNCHANGED <<fingeringClicks, fingeringBefore, visibilityFrame>>

\* A click on the Fingerings button.
ClickFingerings ==
    /\ fingeringClicks < MaxClicks
    /\ IF onClick("Fingerings") = "toggleIntervalVisibility"
       THEN toggleIntervalVisibility ELSE toggleFingeringVisibility
    /\ fingeringClicks' = fingeringClicks + 1
    /\ fingeringBefore' = isFingeringVisible
    /\ UNCHANGED <<intervalClicks, intervalBefore, visibilityFrame>>

VisibilityNext == ClickIntervals \/ ClickFingerings
SpecVisibility == VisibilityInit /\ [][VisibilityNext]_vars

(***************************************************************************)
(* SpecNavigation: the navigation links and the routes of App.  A path is   *)
(* the list of its segments: "/" is <<>>, "/settings" is <<"settings">>.    *)
(***************************************************************************)
\* <NavLink to=... end?>label</NavLink>, in the order of the navigation bar
NAV_LINKS ==
    << [to |-> <<>>, end |-> TRUE, label |-> "Scale Visualizer"],
       [to |-> <<"chord-visualizer">>, end |-> FALSE, label |-> "Chord Visualizer"],
       [to |-> <<"chord-editor">>, end |-> FALSE, label |-> "Chord Editor"],
       [to |-> <<"scale-editor">>, end |-> FALSE, label |-> "Scale Editor"],
       [to |-> <<"settings">>, end |-> FALSE, label |-> "Settings"] >>

\* <Route path=... element=... />
ROUTES ==
    << [path |-> <<>>, element |-> "ScaleVisualizer"],
       [path |-> <<"chord-visualizer">>, element |-> "ChordVisualizer"],
       [path |-> <<"chord-editor">>, element |-> "ChordEditor"],
       [path |-> <<"scale-editor">>, element |-> "ScaleEditor"],
       [path |-> <<"settings">>, element |-> "Settings"] >>

\* Whether the segments of one path begin another path.
StartsWith(pathname, to) ==
    Len(to) <= Len(pathname) /\ \A k \in 1..Len(to) : pathname[k] = to[k]

\* A link that is active on every path its own path begins, "/" included.
isActive_anyPrefix(link, pathname) == StartsWith(pathname, link.to)

\* isActive of a NavLink: the location is the link's path, or, without end and
\* for a path other than "/", a path below it.
isActive(link, pathname) ==
    \/ pathname = link.to
    \/ ~link.end /\ link.to # <<>> /\ StartsWith(pathname, link.to)

\* "nav-link" + (isActive ? " active" : "")
navLinkClass(link, pathname) ==
    IF isActive(link, pathname) THEN <<"nav-link", "active">> ELSE <<"nav-link">>

\* The elements Routes renders for a location: those of the routes whose path
\* it is.
Rendered(pathname) == {ROUTES[k].element : k \in {j \in 1..Len(ROUTES) : ROUTES[j].path = pathname}}

\* The location of the router.
location == navHistory[Len(navHistory)]

\* The router starts at "/".
NavigationInit ==
    /\ navHistory = <<<<>>>>
    /\ NotesIdle /\ ResolveIdle /\ DiatonicIdle /\ ChordIdle /\ ValidateIdle /\ EditorIdle /\ FretIdle /\ IntervalIdle /\ TransposeIdle /\ VisibilityIdle /\ SaveLoadIdle /\ LoadIdle /\ SettingsIdle /\ InFlightIdle

\* A click on a navigation link: the location is pushed, or replaced when the
\* link leads to the location itself.
ClickNavLink(link) ==
    /\ link.to = location \/ Len(navHistory) < MaxHistory
    /\ navHistory' = (IF link.to = location
                      THEN [navHistory EXCEPT ![Len(navHistory)] = link.to]
                      ELSE Append(navHistory, link.to))
    /\ UNCHANGED navFrame

\* The browser's Back button.
GoBack ==
    /\ Len(navHistory) > 1
    /\ navHistory' = SubSeq(navHistory, 1, Len(navHistory) - 1)
    /\ UNCHANGED navFrame

NavigationNext ==
    \/ \E k \in 1..Len(NAV_LINKS) : ClickNavLink(NAV_LINKS[k])
    \/ GoBack
SpecNavigation == NavigationInit /\ [][NavigationNext]_vars

(***************************************************************************)
(* SpecSaveLoad: the selection checkboxes of the save/load page.  A name is *)
(* the list of the pieces of its text, so that one name can begin another;  *)
(* a voicing id is the text tuning::chordType::root::voicing.               *)
(***************************************************************************)
SEPARATOR == "::"

\* `${tuningName}::${chordTypeName}::${rootNote}::${voicing}`
voicingIdOf(tuningName, chordTypeName, rootNote, voicing) ==
    tuningName \o <<SEPARATOR>> \o chordTypeName \o <<SEPARATOR>> \o rootNote
        \o <<SEPARATOR>> \o voicing

\* text.split('::'): the parts between the separators.
RECURSIVE Split(_)
Split(text) ==
    IF \A k \in 1..Len(text) : text[k] # SEPARATOR THEN <<text>>
    ELSE LET k == CHOOSE j \in 1..Len(text) :
                      text[j] = SEPARATOR /\ \A h \in 1..(j - 1) : text[h] # SEPARATOR
         IN  <<SubSeq(text, 1, k - 1)>> \o Split(SubSeq(text, k + 1, Len(text)))

\* The names on the page.
DropTuning == <<"Drop">>
DropDTuning == <<"Drop", " D">>
StandardTuningName == <<"Standard">>
MajorName == <<"Major">>
MinorName == <<"Minor">>

\* The voicings of a library: <<tuning, chord type, root, voicing>>.
LibraryOf(first, second) ==
    { <<first, MajorName, <<"C">>, <<"Open">>>>,
      <<second, MajorName, <<"C">>, <<"Open">>>>,
      <<second, MinorName, <<"A">>, <<"Barre">>>> }

\* What getAllDataForSaveLoad returns: two tunings whose names share no
\* beginning, or two of which one name begins the other.
DataSets ==
    { [scales |-> {<<"Major">>}, chord_types |-> {MajorName, MinorName},
       tunings |-> {first, DropDTuning}, voicings_library |-> LibraryOf(first, DropDTuning)]
      : first \in {StandardTuningName, DropTuning} }

\* The voicing ids of one tuning, of one of its chord types, and of all.
tuningVoicings(data, tuningName) ==
    {voicingIdOf(v[1], v[2], v[3], v[4]) : v \in {w \in data.voicings_library : w[1] = tuningName}}
subgroupVoicings(data, tuningName, chordTypeName) ==
    {voicingIdOf(v[1], v[2], v[3], v[4]) :
        v \in {w \in data.voicings_library : w[1] = tuningName /\ w[2] = chordTypeName}}
allVoicingIds(data) ==
    {voicingIdOf(v[1], v[2], v[3], v[4]) : v \in {w \in data.voicings_library : w[1] \in data.tunings}}

\* has(x) ? delete(x) : add(x)
ToggledIn(set, x) == IF x \in set THEN set \ {x} ELSE set \cup {x}

\* isChordTypeLocked: voicingId.split('::')[1] === typeName for a selected id
isChordTypeLocked(sel, typeName) == \E id \in sel.voicings : At(Split(id), 1) = typeName

\* isTuningLocked: voicingId.startsWith(tuningName) for a selected id
isTuningLocked(sel, tuningName) == \E id \in sel.voicings : StartsWith(id, tuningName)

\* A voicing checkbox that ticks the voicing and leaves its parents alone.
VoicingChanged_aloneTicked(sel, tuningName, chordTypeName, rootNote, voicing) ==
    [sel EXCEPT !.voicings =
        ToggledIn(sel.voicings, voicingIdOf(tuningName, chordTypeName, rootNote, voicing))]

\* handleVoicingChange: the selections it sets.
VoicingChanged(sel, tuningName, chordTypeName, rootNote, voicing) ==
    LET voicingId == voicingIdOf(tuningName, chordTypeName, rootNote, voicing)
    IN  IF voicingId \in sel.voicings
        THEN [sel EXCEPT !.voicings = sel.voicings \ {voicingId}]
        ELSE [sel EXCEPT !.voicings = sel.voicings \cup {voicingId},
                         !.tunings = sel.tunings \cup {tuningName},
                         !.chordTypes = sel.chordTypes \cup {chordTypeName}]

\* The page after its data has arrived, nothing ticked.
SaveLoadInit ==
    /\ allData \in DataSets
    /\ selections = EmptySelections /\ sentSelections = NoSelections
    /\ NotesIdle /\ ResolveIdle /\ DiatonicIdle /\ ChordIdle /\ ValidateIdle /\ EditorIdle /\ FretIdle /\ IntervalIdle /\ TransposeIdle /\ VisibilityIdle /\ NavIdle /\ LoadIdle /\ SettingsIdle /\ InFlightIdle

HandleScaleChange(scaleName) ==
    /\ selections' = [selections EXCEPT !.scales = ToggledIn(selections.scales, scaleName)]
    /\ UNCHANGED <<allData, sentSelections, saveLoadFrame>>

\* The checkbox is disabled while the chord type is locked.
HandleChordTypeChange(typeName) ==
    /\ ~isChordTypeLocked(selections, typeName)
    /\ selections' = [selections EXCEPT !.chordTypes = ToggledIn(selections.chordTypes, typeName)]
    /\ UNCHANGED <<allData, sentSelections, saveLoadFrame>>

\* The checkbox is disabled while the tuning is locked.
HandleTuningChange(tuningName) ==
    /\ ~isTuningLocked(selections, tuningName)
    /\ selections' = [selections EXCEPT !.tunings = ToggledIn(selections.tunings, tuningName)]
    /\ UNCHANGED <<allData, sentSelections, saveLoadFrame>>

HandleVoicingChange(v) ==
    /\ selections' = VoicingChanged(selections, v[1], v[2], v[3], v[4])
    /\ UNCHANGED <<allData, sentSelections, saveLoadFrame>>

HandleSelectAll(select) ==
    /\ selections' =
          (IF select
           THEN [scales |-> allData.scales, chordTypes |-> allData.chord_types,
                 tunings |-> allData.tunings, voicings |-> allVoicingIds(allData)]
           ELSE EmptySelections)
    /\ UNCHANGED <<allData, sentSelections, saveLoadFrame>>

HandleSelectAllScales(select) ==
    /\ selections' = [selections EXCEPT !.scales = IF select THEN allData.scales ELSE {}]
    /\ UNCHANGED <<allData, sentSelections, saveLoadFrame>>

HandleSelectAllChordTypes(select) ==
    /\ selections' =
          [selections EXCEPT !.chordTypes =
              IF select THEN selections.chordTypes \cup allData.chord_types
              ELSE selections.chordTypes \
                       {ct \in allData.chord_types : ~isChordTypeLocked(selections, ct)}]
    /\ UNCHANGED <<allData, sentSelections, saveLoadFrame>>

HandleSelectAllForTuning(tuningName, select) ==
    /\ selections' =
          (IF select
           THEN [selections EXCEPT
                    !.tunings = selections.tunings \cup {tuningName},
                    !.voicings = selections.voicings \cup tuningVoicings(allData, tuningName),
                    !.chordTypes = selections.chordTypes \cup
                        {v[2] : v \in {w \in allData.voicings_library : w[1] = tuningName}}]
           ELSE [selections EXCEPT
                    !.tunings = IF isTuningLocked(selections, tuningName)
                                THEN selections.tunings ELSE selections.tunings \ {tuningName},
                    !.voicings = selections.voicings \ tuningVoicings(allData, tuningName)])
    /\ UNCHANGED <<allData, sentSelections, saveLoadFrame>>

HandleSelectAllForVoicingSubgroup(tuningName, chordTypeName, select) ==
    /\ selections' =
          (IF select
           THEN [selections EXCEPT
                    !.tunings = selections.tunings \cup {tuningName},
                    !.chordTypes = selections.chordTypes \cup {chordTypeName},
                    !.voicings = selections.voicings \cup
                        subgroupVoicings(allData, tuningName, chordTypeName)]
           ELSE [selections EXCEPT
                    !.voicings = selections.voicings \
                        subgroupVoicings(allData, tuningName, chordTypeName)])
    /\ UNCHANGED <<allData, sentSelections, saveLoadFrame>>

\* handleSave: the payload handed to generateSaveFile.
HandleSave ==
    /\ sentSelections' = selections
    /\ UNCHANGED <<allData, selections, saveLoadFrame>>

SaveLoadNext ==
    \/ \E scaleName \in allData.scales : HandleScaleChange(scaleName)
    \/ \E typeName \in allData.chord_types : HandleChordTypeChange(typeName)
    \/ \E tuningName \in allData.tunings : HandleTuningChange(tuningName)
    \/ \E v \in allData.voicings_library : HandleVoicingChange(v)
    \/ \E select \in BOOLEAN : HandleSelectAll(select)
    \/ \E select \in BOOLEAN : HandleSelectAllScales(select)
    \/ \E select \in BOOLEAN : HandleSelectAllChordTypes(select)
    \/ \E tuningName \in allData.tunings, select \in BOOLEAN :
          HandleSelectAllForTuning(tuningName, select)
    \/ \E v \in allData.voicings_library, select \in BOOLEAN :
          HandleSelectAllForVoicingSubgroup(v[1], v[2], select)
    \/ HandleSave
SpecSaveLoad == SaveLoadInit /\ [][SaveLoadNext]_vars

(***************************************************************************)
(* SpecPageLoad: the save/load page loading its data.  A request is in      *)
(* flight from the fetch call until its outcome: a response, or the         *)
(* rejection of the fetch promise when the network fails.                   *)
(***************************************************************************)
\* The outcomes of the all-data request.
FETCH_OUTCOMES == {"ok", "http_error", "unparseable_body", "empty_body", "network_failure"}
\* The outcomes of a request of which only response.ok is read.
POST_OUTCOMES == {"ok", "http_error", "network_failure"}

\* The data the backend holds.
FactoryData == CHOOSE data \in DataSets : StandardTuningName \in data.tunings

\* handleResponse: the parsed body, or null.
handleResponse(outcome) == IF outcome = "ok" THEN FactoryData ELSE NoAllData

\* What the page renders.
PageShows ==
    IF isLoading THEN "Loading..."
    ELSE IF allData = NoAllData THEN "Error loading data. Please try again later."
    ELSE "data"

\* The component as constructed: isLoading true, allData null.
PageLoadInit ==
    /\ isLoading = TRUE /\ allData = NoAllData
    /\ selections = EmptySelections /\ sentSelections = NoSelections
    /\ pendingFetches = 0 /\ pendingResets = 0 /\ pendingLoads = 0
    /\ fetchesStarted = 0 /\ accepted = 0 /\ declined = 0
    /\ resetsSent = 0 /\ resetsSucceeded = 0
    /\ NotesIdle /\ ResolveIdle /\ DiatonicIdle /\ ChordIdle /\ ValidateIdle /\ EditorIdle /\ FretIdle /\ IntervalIdle /\ TransposeIdle /\ VisibilityIdle /\ NavIdle /\ SettingsIdle /\ InFlightIdle

\* fetchData up to its await: setIsLoading(true) and the request.
fetchData ==
    /\ isLoading' = TRUE
    /\ pendingFetches' = pendingFetches + 1
    /\ fetchesStarted' = fetchesStarted + 1

\* The mount effect calls fetchData once.
MountEffect ==
    /\ fetchesStarted = 0
    /\ fetchData
    /\ UNCHANGED <<allData, pendingResets, pendingLoads, accepted, declined, resetsSent, resetsSucceeded, loadFrame>>

\* fetchData after its await.  A rejected fetch throws out of
\* getAllDataForSaveLoad and of fetchData: neither setter runs.
FetchOutcome(outcome) ==
    /\ pendingFetches > 0
    /\ pendingFetches' = pendingFetches - 1
    /\ IF outcome = "network_failure"
       THEN UNCHANGED <<allData, isLoading>>
       ELSE allData' = handleResponse(outcome) /\ isLoading' = FALSE
    /\ UNCHANGED <<pendingResets, pendingLoads, fetchesStarted, accepted, declined, resetsSent, resetsSucceeded, loadFrame>>

\* handleFactoryReset up to its await.  The button is there only while the
\* page shows the data.
HandleFactoryReset(isConfirmed) ==
    /\ PageShows = "data"
    /\ accepted + declined < MaxRequests
    /\ IF isConfirmed
       THEN /\ accepted' = accepted + 1
            /\ pendingResets' = pendingResets + 1
            /\ resetsSent' = resetsSent + 1
            /\ UNCHANGED declined
       ELSE /\ declined' = declined + 1
            /\ UNCHANGED <<accepted, pendingResets, resetsSent>>
    /\ UNCHANGED <<allData, isLoading, pendingFetches, pendingLoads, fetchesStarted, resetsSucceeded, loadFrame>>

\* A reset handler that re-fetches whatever the reset reported.
success_ignored(outcome) == TRUE

\* const success = await factoryReset(): response.ok.
success(outcome) == outcome = "ok"

\* handleFactoryReset after its await.
FactoryResetOutcome(outcome) ==
    /\ pendingResets > 0
    /\ pendingResets' = pendingResets - 1
    /\ resetsSucceeded' = resetsSucceeded + (IF outcome = "ok" THEN 1 ELSE 0)
    /\ IF success(outcome)
       THEN fetchData
       ELSE UNCHANGED <<isLoading, pendingFetches, fetchesStarted>>
    /\ UNCHANGED <<allData, pendingLoads, accepted, declined, resetsSent, loadFrame>>

\* handleFileChange and handleFileLoad up to their await.
HandleFileLoad ==
    /\ PageShows = "data"
    /\ fetchesStarted + pendingLoads <= MaxRequests
    /\ pendingLoads' = pendingLoads + 1
    /\ UNCHANGED <<allData, isLoading, pendingFetches, pendingResets, fetchesStarted, accepted, declined, resetsSent, resetsSucceeded, loadFrame>>

\* handleFileChange and handleFileLoad after their await.
FileLoadOutcome(outcome) ==
    /\ pendingLoads > 0
    /\ pendingLoads' = pendingLoads - 1
    /\ IF success(outcome)
       THEN fetchData
       ELSE UNCHANGED <<isLoading, pendingFetches, fetchesStarted>>
    /\ UNCHANGED <<allData, pendingResets, accepted, declined, resetsSent, resetsSucceeded, loadFrame>>

PageLoadNext ==
    \/ MountEffect
    \/ \E outcome \in FETCH_OUTCOMES : FetchOutcome(outcome)
    \/ \E isConfirmed \in BOOLEAN : HandleFactoryReset(isConfirmed)
    \/ \E outcome \in POST_OUTCOMES : FactoryResetOutcome(outcome)
    \/ HandleFileLoad
    \/ \E outcome \in POST_OUTCOMES : FileLoadOutcome(outcome)
SpecPageLoad == PageLoadInit /\ [][PageLoadNext]_vars

\* The effect runs after the first render and every request in flight gets
\* its outcome; the user need not click anything.
SpecPageLoadFair ==
    /\ SpecPageLoad
    /\ WF_vars(MountEffect)
    /\ WF_vars(\E outcome \in FETCH_OUTCOMES : FetchOutcome(outcome))
    /\ WF_vars(\E outcome \in POST_OUTCOMES : FactoryResetOutcome(outcome))
    /\ WF_vars(\E outcome \in POST_OUTCOMES : FileLoadOutcome(outcome))

(***************************************************************************)
(* SpecSettings: the handedness and accidental-type providers.  An item of  *)
(* localStorage is <<text>>, or <<>> for null: the item is not there.       *)
(***************************************************************************)
\* What the two items may hold when the page is opened.
StoredItems == {<<>>, <<"left">>, <<"right">>, <<"flats">>, <<"sharps">>, <<"Left">>, <<"">>}

\* An initializer that takes whatever is stored.
initialHandedness_trusting(saved) == IF saved = <<>> THEN "right" ELSE saved[1]

\* (saved === 'left' || saved === 'right') ? saved : 'right'
initialHandedness(saved) == IF saved = <<"left">> \/ saved = <<"right">> THEN saved[1] ELSE "right"

\* (saved === 'flats' || saved === 'sharps') ? saved : 'sharps'
initialAccidentalType(saved) ==
    IF saved = <<"flats">> \/ saved = <<"sharps">> THEN saved[1] ELSE "sharps"

\* The first render: the state initializers have read localStorage.
SettingsInit ==
    /\ localStorage \in [handedness : StoredItems, accidental : StoredItems]
    /\ handedness = initialHandedness(localStorage.handedness)
    /\ contextAccidentalType = initialAccidentalType(localStorage.accidental)
    /\ effectsPending = TRUE /\ toggles = 0 /\ reloads = 0
    /\ NotesIdle /\ ResolveIdle /\ DiatonicIdle /\ ChordIdle /\ ValidateIdle /\ EditorIdle /\ FretIdle /\ IntervalIdle /\ TransposeIdle /\ VisibilityIdle /\ NavIdle /\ SaveLoadIdle /\ LoadIdle /\ InFlightIdle

\* The effects of both providers after the first render.
MountEffects ==
    /\ effectsPending
    /\ localStorage' = [handedness |-> <<handedness>>, accidental |-> <<contextAccidentalType>>]
    /\ effectsPending' = FALSE
    /\ UNCHANGED <<handedness, contextAccidentalType, toggles, reloads, settingsFrame>>

\* toggleHandedness, the render and the effect on [handedness].
ToggleHandedness ==
    /\ ~effectsPending /\ toggles < MaxToggles
    /\ handedness' = (IF handedness = "right" THEN "left" ELSE "right")
    /\ localStorage' = [localStorage EXCEPT !.handedness = <<handedness'>>]
    /\ toggles' = toggles + 1
    /\ UNCHANGED <<contextAccidentalType, effectsPending, reloads, settingsFrame>>

\* toggleAccidentalType, the render and the effect on [accidentalType].
ToggleAccidentalType ==
    /\ ~effectsPending /\ toggles < MaxToggles
    /\ contextAccidentalType' = (IF contextAccidentalType = "sharps" THEN "flats" ELSE "sharps")
    /\ localStorage' = [localStorage EXCEPT !.accidental = <<contextAccidentalType'>>]
    /\ toggles' = toggles + 1
    /\ UNCHANGED <<handedness, effectsPending, reloads, settingsFrame>>

\* The page is reloaded: the providers are constructed anew from localStorage.
Reload ==
    /\ ~effectsPending /\ reloads < MaxReloads
    /\ handedness' = initialHandedness(localStorage.handedness)
    /\ contextAccidentalType' = initialAccidentalType(localStorage.accidental)
    /\ effectsPending' = TRUE /\ toggles' = 0 /\ reloads' = reloads + 1
    /\ UNCHANGED <<localStorage, settingsFrame>>

SettingsNext ==
    \/ MountEffects
    \/ ToggleHandedness
    \/ ToggleAccidentalType
    \/ Reload
SpecSettings == SettingsInit /\ [][SettingsNext]_vars

(***************************************************************************)
(* SpecInFlight: the effects of ScaleVisualizer with their requests in      *)
(* flight.  An effect run keeps the values of the render it belongs to; its *)
(* continuation runs when the response arrives, in any order.               *)
(***************************************************************************)
\* The roots the user chooses among.
InFlightRoots == {"C", "D"}

\* The fetchDiatonicChords run of a render: its root, scale, tuning, and the
\* selectedChord it closed over.
ChordFetch(id, rootName, scale, tun, chord) ==
    [id |-> id, root |-> rootName, scale |-> scale, tuning |-> tun, chord |-> chord]

\* The fetchFretboardAndChordData run of a render, waiting for the scale
\* grid or for the voicings and notes of the chord.
DataFetch(id, rootName, scale, tun, chord) ==
    [id |-> id, root |-> rootName, scale |-> scale, tuning |-> tun, chord |-> chord,
     stage |-> "scale"]

\* What the page shows once the responses to a selection have arrived.
FretboardFor(rootName, scale, tun) == visualizeScale(tun, gridMaxFret, unformatNote(rootName), scale)
VoicingsFor(tun, chord) ==
    IF chord # NoChord THEN StoredVoicings(tun, unformatNote(chord[1])) ELSE <<>>
ChordNotesFor(chord) ==
    IF chord # NoChord THEN chordNotesOf(unformatNote(chord[1]), TypeNamed(chord[2])) ELSE <<>>

\* The page after its first data has arrived.
InFlightInit ==
    /\ page = "ScaleVisualizer" /\ displayAccidental = "sharps"
    /\ gridMaxFret = LEGACY_DEFAULT_FRETS
    /\ selectedTuning = StandardTuning /\ selectedRoot = "C" /\ selectedScale = MajorScale
    /\ selectedChord = NoChord
    /\ fretboardData = FretboardFor("C", MajorScale, StandardTuning)
    /\ chordNotes = <<>> /\ pageVoicings = <<>> /\ selectedVoicingIndex = -1
    /\ shownChords = chordsInScale("C", MajorScale, PageCatalog)
    /\ chordFetches = {} /\ dataFetches = {} /\ sent = 0 /\ changes = 0
    /\ NotesIdle /\ ResolveIdle /\ DiatonicIdle /\ ChordIdle /\ ValidateIdle /\ EditorIdle /\ IntervalIdle /\ TransposeIdle /\ VisibilityIdle /\ NavIdle /\ SaveLoadIdle /\ LoadIdle /\ SettingsIdle

\* A root, scale or tuning is selected: both effects run.
SelectionChanged(rootName, scale, tun) ==
    /\ changes < MaxChanges
    /\ <<rootName, scale, tun>> # <<selectedRoot, selectedScale, selectedTuning>>
    /\ selectedRoot' = rootName /\ selectedScale' = scale /\ selectedTuning' = tun
    /\ chordFetches' = chordFetches \cup {ChordFetch(sent + 1, rootName, scale, tun, selectedChord)}
    /\ dataFetches' = dataFetches \cup {DataFetch(sent + 2, rootName, scale, tun, selectedChord)}
    /\ sent' = sent + 2 /\ changes' = changes + 1
    /\ UNCHANGED <<page, displayAccidental, gridMaxFret, selectedChord, fretboardData,
                   chordNotes, pageVoicings, selectedVoicingIndex, shownChords, inFlightFrame>>

SelectRoot(rootName) == SelectionChanged(rootName, selectedScale, selectedTuning)
SelectScale(scale) == SelectionChanged(selectedRoot, scale, selectedTuning)
SelectTuning(tun) == SelectionChanged(selectedRoot, selectedScale, tun)

\* A chord of the Chord selector is picked: the second effect runs.
SelectChord(chord) ==
    /\ changes < MaxChanges
    /\ chord # selectedChord
    /\ selectedChord' = chord
    /\ dataFetches' = dataFetches \cup
          {DataFetch(sent + 1, selectedRoot, selectedScale, selectedTuning, chord)}
    /\ sent' = sent + 1 /\ changes' = changes + 1
    /\ UNCHANGED <<page, displayAccidental, gridMaxFret, selectedRoot, selectedScale,
                   selectedTuning, fretboardData, chordNotes, pageVoicings,
                   selectedVoicingIndex, shownChords, chordFetches, inFlightFrame>>

\* fetchDiatonicChords after its await: the chords are set, and the chord
\* the run closed over is looked up in them.  Clearing a selected chord
\* makes the second effect run.
ChordsArrive(f) ==
    LET diatonic == chordsInScale(unformatNote(f.root), f.scale, PageCatalog)
        cleared == f.chord # NoChord /\ f.chord \notin Range(diatonic)
    IN  /\ f \in chordFetches
        /\ chordFetches' = chordFetches \ {f}
        /\ shownChords' = diatonic
        /\ IF cleared /\ selectedChord # NoChord
           THEN /\ selectedChord' = NoChord
                /\ dataFetches' = dataFetches \cup
                      {DataFetch(sent + 1, selectedRoot, selectedScale, selectedTuning, NoChord)}
                /\ sent' = sent + 1
           ELSE UNCHANGED <<selectedChord, dataFetches, sent>>
        /\ UNCHANGED <<page, displayAccidental, gridMaxFret, selectedRoot, selectedScale,
                       selectedTuning, fretboardData, chordNotes, pageVoicings,
                       selectedVoicingIndex, changes, inFlightFrame>>

\* fetchFretboardAndChordData after its first await: the grid is set; with a
\* chord the voicings and notes are requested, without one they are emptied.
ScaleDataArrives(d) ==
    /\ d \in dataFetches /\ d.stage = "scale"
    /\ fretboardData' = FretboardFor(d.root, d.scale, d.tuning)
    /\ IF d.chord # NoChord
       THEN /\ dataFetches' = (dataFetches \ {d}) \cup {[d EXCEPT !.stage = "chord"]}
            /\ UNCHANGED <<pageVoicings, chordNotes, selectedVoicingIndex>>
       ELSE /\ dataFetches' = dataFetches \ {d}
            /\ pageVoicings' = <<>> /\ chordNotes' = <<>> /\ selectedVoicingIndex' = -1
    /\ UNCHANGED <<page, displayAccidental, gridMaxFret, selectedRoot, selectedScale,
                   selectedTuning, selectedChord, shownChords, chordFetches, sent, changes,
                   inFlightFrame>>

\* fetchFretboardAndChordData after its second await.
ChordDataArrives(d) ==
    /\ d \in dataFetches /\ d.stage = "chord"
    /\ dataFetches' = dataFetches \ {d}
    /\ pageVoicings' = VoicingsFor(d.tuning, d.chord)
    /\ chordNotes' = ChordNotesFor(d.chord)
    /\ selectedVoicingIndex' = -1
    /\ UNCHANGED <<page, displayAccidental, gridMaxFret, selectedRoot, selectedScale,
                   selectedTuning, selectedChord, fretboardData, shownChords, chordFetches,
                   sent, changes, inFlightFrame>>

InFlightNext ==
    \/ \E rootName \in InFlightRoots : SelectRoot(rootName)
    \/ \E scale \in PageScales : SelectScale(scale)
    \/ \E tun \in PageTunings : SelectTuning(tun)
    \/ \E chord \in {NoChord} \cup Range(shownChords) : SelectChord(chord)
    \/ \E f \in chordFetches : ChordsArrive(f)
    \/ \E d \in dataFetches : ScaleDataArrives(d)
    \/ \E d \in dataFetches : ChordDataArrives(d)
SpecInFlight == InFlightInit /\ [][InFlightNext]_vars

(***************************************************************************)
(* Claims.                                                                  *)
(***************************************************************************)

\* C10: spelling a pitch class in either accidental type and reading the name
\* back gives the pitch class again; formatting a sharp-based note name and
\* unformatting it gives the name again; and the flat name at every index
\* unformats to the sharp name at that index.
C10_RoundTrip ==
    /\ parsed # <<>> => parsed = <<pitch>>
    /\ (unformatted # None /\ noteIn \in Range(SHARP_NOTES)) => unformatted = noteIn
    /\ spelled # None =>
         unformatNote(At(getNoteNames("flats"), pitch)) = At(getNoteNames("sharps"), pitch)

\* C10 witness: an accidental was spelled as a flat and read back, and a sharp
\* name was formatted to a flat and unformatted.
C10_Witness ==
    /\ accidentalType = "flats"
    /\ spelled \in FlatKeys /\ parsed = <<pitch>>
    /\ noteIn \in SharpKeys /\ formatted \in FlatKeys /\ unformatted = noteIn

\* C6 (as claimed): the result of resolving an interval list is exactly the set
\* of the transposed pitch classes, its size the number of distinct pitch
\* classes (colliding intervals collapse into one entry), at most the number of
\* intervals and equal to it when no two intervals coincide modulo 12; C with
\* the Major intervals gives C D E F G A B.
C6_ResolveIsSet ==
    notesDone =>
        LET rootPc == IndexOf(NOTES, root)
            pcs == {Transpose(rootPc, intervals[k]) : k \in 1..Len(intervals)}
        IN  /\ Range(notes) = {At(NOTES, p) : p \in pcs}
            /\ Len(notes) = Cardinality(pcs)
            /\ Len(notes) <= Len(intervals)
            /\ ((\A j, k \in 1..Len(intervals) :
                    j # k => intervals[j] % 12 # intervals[k] % 12)
                => Len(notes) = Len(intervals))
            /\ ((root = "C" /\ intervals = Major)
                => notes = <<"C", "D", "E", "F", "G", "A", "B">>)

\* The scale's pitch-class set, written out.
ScaleSet == {(scaleRoot + scaleIntervals[k]) % 12 : k \in 1..Len(scaleIntervals)}
\* The pitch-class set of chord type t on root r, written out.
ChordSet(r, t) == {(r + t.intervals[k]) % 12 : k \in 1..Len(t.intervals)}

\* C1: diatonicChords lists the pair (r, t) if and only if r is in the scale's
\* set S and the chord of type t on r lies inside S: no listed chord has a note
\* outside S and no catalog pair that fits is left out.
C1_DiatonicIff ==
    chordsDone =>
        \A r \in PitchClasses : \A c \in 1..Len(catalog) :
            ([root |-> r, type |-> catalog[c]] \in Range(chords))
                <=> (r \in ScaleSet /\ ChordSet(r, catalog[c]) \subseteq ScaleSet)

\* C1 witness: for C Major and the catalog [Major, Minor], C Major is listed and
\* D Major, whose F# is outside the scale, is not.
C1_Witness ==
    /\ chordsDone /\ scaleRoot = 0 /\ scaleIntervals = Major
    /\ catalog = <<MajorType, MinorType>>
    /\ [root |-> 0, type |-> MajorType] \in Range(chords)
    /\ [root |-> 2, type |-> MajorType] \notin Range(chords)
    /\ [root |-> 2, type |-> MinorType] \in Range(chords)

\* The 1-based position of chord type t in the catalog.
CatalogIndex(t) == CHOOSE c \in 1..Len(catalog) : catalog[c] = t
\* The scale degree of pitch class r, by the ascending interval from the root.
Degree(r) == CHOOSE d \in 1..Len(scaleIntervals) : (scaleRoot + scaleIntervals[d]) % 12 = r

\* C2: the list is ordered by ascending scale degree of the chord root and,
\* among chords on one root, by the position of the chord type in the catalog;
\* for C Major with the catalog [Major, Minor], C Major precedes D Minor, which
\* precedes E Minor.
C2_DiatonicOrder ==
    chordsDone =>
        /\ \A j, k \in 1..Len(chords) :
              j < k =>
                \/ Degree(chords[j].root) < Degree(chords[k].root)
                \/ /\ chords[j].root = chords[k].root
                   /\ CatalogIndex(chords[j].type) < CatalogIndex(chords[k].type)
        /\ (scaleRoot = 0 /\ scaleIntervals = Major /\ catalog = <<MajorType, MinorType>>) =>
              \E a, b, c \in 1..Len(chords) :
                 /\ a < b /\ b < c
                 /\ chords[a] = [root |-> 0, type |-> MajorType]
                 /\ chords[b] = [root |-> 2, type |-> MinorType]
                 /\ chords[c] = [root |-> 4, type |-> MinorType]

\* C2 witness: a listing with two chord types on one root and chords on two
\* roots, the later root of lower pitch class than the earlier.
C2_Witness ==
    /\ chordsDone
    /\ \E j, k \in 1..Len(chords) :
          j < k /\ chords[j].root = chords[k].root /\ chords[j].type # chords[k].type
    /\ \E j, k \in 1..Len(chords) : j < k /\ chords[j].root > chords[k].root

\* The chord's pitch-class set for the chord of the state, written out.
HereChordSet == {(PitchOf(chordRoot) + chordType.intervals[k]) % 12 : k \in 1..Len(chordType.intervals)}
\* Whether entry e of a fingering sounds a pitch outside the chord.
SoundsOutside(e) ==
    /\ e[2] >= 0
    /\ e[1] \in 1..Len(tuning)
    /\ (PitchOf(tuning[e[1]]) + e[2]) % 12 \notin HereChordSet

\* C3: a voicing is accepted, by the validator and so by Save Voicing, only if
\* every entry with fret >= 0 sounds a pitch of the chord; a sounded note
\* outside the chord gives NoteNotInChord (once the string numbers are in range
\* and distinct); and NoteNotInChord is given only when an entry with fret >= 0
\* is outside, never for a muted entry.
C3_SoundedInChord ==
    /\ vResult # NoResult =>
         /\ vResult.ok => \A k \in 1..Len(vFingering) : ~SoundsOutside(vFingering[k])
         /\ (vResult.ok = FALSE /\ vResult.error = "NoteNotInChord")
               => \E k \in 1..Len(vFingering) : SoundsOutside(vFingering[k])
         /\ ((\E k \in 1..Len(vFingering) : SoundsOutside(vFingering[k]))
               /\ NoDup([k \in 1..Len(vFingering) |-> vFingering[k][1]]))
               => (vResult.ok = FALSE /\ vResult.error = "NoteNotInChord")
    /\ alert = SAVED => (vResult # NoResult /\ vResult.ok /\ vFingering = fingering)
    /\ \A i \in 1..Len(library) : \A k \in 1..Len(library[i].fingering) :
          ~SoundsOutside(library[i].fingering[k])

\* C3 witness: Save Voicing was accepted for a fingering that plays a chord
\* note and mutes a string whose open pitch is outside the chord.
C3_Witness ==
    /\ alert = SAVED
    /\ \E k \in 1..Len(fingering) : fingering[k][2] >= 0
    /\ \E k \in 1..Len(fingering) :
          fingering[k][2] = -1 /\ PitchOf(tuning[fingering[k][1]]) \notin HereChordSet

\* C4: validate succeeds only when every string number is in the tuning's
\* range and no two entries share a string; an out-of-range string number gives
\* StringIndexOutOfRange, two entries on one string (all in range) give
\* DuplicateStringEntry, and neither failure carries a status list.
C4_StringChecks ==
    vResult # NoResult =>
        LET inRange == \A k \in 1..Len(vFingering) : vFingering[k][1] \in 1..Len(tuning)
            distinct == NoDup([k \in 1..Len(vFingering) |-> vFingering[k][1]])
        IN  /\ vResult.ok => (inRange /\ distinct)
            /\ ~inRange => /\ vResult.ok = FALSE
                           /\ vResult.error = "StringIndexOutOfRange"
                           /\ "statuses" \notin DOMAIN vResult
            /\ (inRange /\ ~distinct) => /\ vResult.ok = FALSE
                                         /\ vResult.error = "DuplicateStringEntry"
                                         /\ "statuses" \notin DOMAIN vResult

\* C4 witness: a fingering with two entries on string 1, both chord notes, was
\* refused for the duplicate.
C4_Witness ==
    /\ vResult # NoResult
    /\ vFingering = <<<<1, 0, 0>>, <<1, 0, 1>>>>
    /\ vResult.ok = FALSE /\ vResult.error = "DuplicateStringEntry"

\* C5 (as claimed): the fingering being edited, and so any voicing Save Voicing
\* sends, holds at most one triple per string, every string number within the
\* tuning's range.
C5_OnePerString ==
    /\ \A k \in 1..Len(fingering) : fingering[k][1] \in 1..Len(tuning)
    /\ NoDup([k \in 1..Len(fingering) |-> fingering[k][1]])
    /\ vResult # NoResult => NoDup([k \in 1..Len(vFingering) |-> vFingering[k][1]])

\* The cells of the grid last fetched: <<string, fret>>.
Cells == {<<st, f>> : st \in DOMAIN fretboardData, f \in 0..gridMaxFret}

\* C7: the grid holds, for every string of the tuning and every fret in
\* 0..maxFret, one cell whose pitch is the open string's pitch transposed by
\* the fret; every string has maxFret + 1 cells, which is the number of frets
\* the Fretboard lays out (25 for maxFret = 24); and in standard tuning the
\* second string (open A) at fret 5 is D.
C7_GridCells ==
        /\ DOMAIN fretboardData = 1..Len(selectedTuning)
        /\ \A st \in 1..Len(selectedTuning) :
              /\ Len(fretboardData[st]) = gridMaxFret + 1
              /\ \A f \in 0..gridMaxFret :
                    PitchOf(noteInfoAt(fretboardData, st, f).note)
                        = Transpose(PitchOf(selectedTuning[st]), f)
        /\ Range(stringNumbers(fretboardData)) = 1..Len(selectedTuning)
        /\ numFrets(fretboardData) = gridMaxFret + 1
        /\ Range(fretNumbers(fretboardData)) = 0..gridMaxFret
        /\ (gridMaxFret = 24 => numFrets(fretboardData) = 25)
        /\ (selectedTuning = StandardTuning => noteInfoAt(fretboardData, 2, 5).note = "D")

\* C7 witness: the grid of the standard tuning was fetched again for another
\* scale with 24 frets, and its second string at fret 5 is D.
C7_Witness ==
    /\ selectedTuning = StandardTuning /\ selectedScale = MinorScale
    /\ gridMaxFret = DEFAULT_FRETS
    /\ numFrets(fretboardData) = 25
    /\ noteInfoAt(fretboardData, 2, 5).note = "D"

\* Whether the Fretboard of ScaleVisualizer marks a cell as a root: the root
\* highlight or the chord-root marker.
MarkedRoot(st, f) ==
    LET noteInfo == noteInfoAt(fretboardData, st, f)
        chordRootNote == chordRootNoteOf(selectedChord)
    IN  \/ "scale-root-highlight" \in highlightClasses(noteInfo, selectedRoot, chordRootNote, chordNotes)
        \/ "chord-root" \in noteMarkerClasses(noteInfo, st, f, currentVoicing, chordNotes,
                                              chordRootNote, FALSE)

\* C8: on ScaleVisualizer with no chord selected, a cell is marked as root
\* exactly when it is in the scale and its pitch is the pitch of the selected
\* root, whichever spelling (sharp or flat) the root was selected in.
C8_RootFlag ==
    (page = "ScaleVisualizer" /\ selectedChord = NoChord) =>
        \A c \in Cells :
            LET noteInfo == noteInfoAt(fretboardData, c[1], c[2])
            IN  MarkedRoot(c[1], c[2])
                    <=> (noteInfo.is_in_scale
                         /\ PitchOf(noteInfo.note) = PitchOf(unformatNote(selectedRoot)))

\* The cells of the grid that are in the scale and in the chord selected in App.
InScaleAndChord ==
    {c \in Cells :
        /\ PitchOf(noteInfoAt(fretboardData, c[1], c[2]).note)
              \in resolveScale(PitchOf(selectedRoot), selectedScale.intervals)
        /\ PitchOf(noteInfoAt(fretboardData, c[1], c[2]).note)
              \in resolveChord(PitchOf(selectedChord[1]), TypeNamed(selectedChord[2]).intervals)}

\* What the Fretboard with voicings renders for a cell in App.
Rendered016(c) ==
    renderFrets016(fretboardData, c[1] - 1, c[2], currentVoicing, selectedRoot,
                   chordRootNoteOf(selectedChord), NoNotes)

\* What the flags say and the first Fretboard renders for a cell that is in
\* the scale and in the chord: in-chord, not in-scale, and the in-scale flag
\* still set.
FlaggedInChord(c) ==
    /\ noteInfoAt(fretboardData, c[1], c[2]).is_in_chord
    /\ noteInfoAt(fretboardData, c[1], c[2]).is_in_scale
    /\ c[2] <= LEGACY_DEFAULT_FRETS =>
          /\ "in-chord" \in renderFrets014(fretboardData, c[1] - 1, c[2])
          /\ "in-scale" \notin renderFrets014(fretboardData, c[1] - 1, c[2])

\* C9: with a scale and a chord both selected in App, every cell that is in
\* the scale and in the chord is flagged in-chord with its in-scale flag still
\* set, and both Fretboards render it as a chord note.
C9_ChordPrecedence ==
    (page = "App" /\ selectedChord # NoChord) =>
        \A c \in InScaleAndChord : FlaggedInChord(c) /\ Rendered016(c).isChordNote

\* C9 as it holds: the same, except that the Fretboard with voicings renders
\* every such cell as a chord note only while All Tones is shown; while a
\* voicing is selected it renders as chord notes the cells the voicing fingers,
\* and the cell keeps its in-scale class either way.
C9_ChordPrecedenceAllTones ==
    (page = "App" /\ selectedChord # NoChord) =>
        \A c \in InScaleAndChord :
            /\ FlaggedInChord(c)
            /\ "in-scale" \in Rendered016(c).classes
            /\ selectedVoicingIndex = -1 => Rendered016(c).isChordNote
            /\ selectedVoicingIndex > -1 =>
                  (Rendered016(c).isChordNote
                      <=> \E k \in 1..Len(currentVoicing.fingering) :
                              /\ currentVoicing.fingering[k][1] = DEFAULT_STRINGS - (c[1] - 1)
                              /\ currentVoicing.fingering[k][2] = c[2])

\* C9 witness: a chord of the scale is selected in App, a voicing of it is
\* shown, and a cell in the scale and in the chord is not fingered by it.
C9_Witness ==
    /\ page = "App" /\ selectedChord # NoChord /\ selectedVoicingIndex > -1
    /\ \E c \in InScaleAndChord : ~Rendered016(c).isChordNote
    /\ \E c \in InScaleAndChord : Rendered016(c).isChordNote

(***************************************************************************)
(* Transposition as the scale editor computes it.                           *)
(***************************************************************************)
\* C11 (as claimed): transposing a pitch by any integer number of semitones,
\* negative ones and 12 or more included, gives the pitch class
\* (pitch + semitones) mod 12, always one of the twelve notes and never an
\* undefined note.
C11_TransposeTotal ==
    notesDone =>
        \A k \in 1..Len(intervals) :
            /\ notes[k] \in Range(NOTES)
            /\ notes[k] = At(NOTES, Transpose(IndexOf(NOTES, root), intervals[k]))

(***************************************************************************)
(* Reading a note name.                                                     *)
(***************************************************************************)
\* The canonical spelling a name in another letter case stands for.
CaseFolded(name) ==
    CASE name = "db" -> "Db" [] name = "c#" -> "C#" [] name = "BB" -> "Bb"
      [] OTHER -> name

\* The error the claimed parse returns for a name that is no spelling.
InvalidNoteName == "InvalidNoteName"

\* C12 (as claimed): a canonical sharp or flat spelling, in any letter case, is
\* read as the sharp-based name of its pitch class; every other string is
\* rejected with InvalidNoteName, never passed through unchanged.
C12_ParseRejects ==
    unformatted # None =>
        LET canonical == CaseFolded(formatted)
        IN  IF canonical \in Range(SHARP_NOTES) \cup Range(FLAT_NOTES)
            THEN unformatted = At(SHARP_NOTES, IndexOf(getNoteNames(
                     IF canonical \in FlatKeys THEN "flats" ELSE "sharps"), canonical))
            ELSE unformatted = InvalidNoteName

(***************************************************************************)
(* The interval lists the editors send.                                     *)
(***************************************************************************)
\* C13 (as claimed): the interval list an editor sends on Save, after any
\* sequence of checkbox toggles, holds no interval twice, holds only integers
\* in 0..11, and holds 0, the root.
C13_SentIntervalSet ==
    sentIntervals # NoPayload =>
        /\ NoDup(sentIntervals)
        /\ \A k \in 1..Len(sentIntervals) : sentIntervals[k] \in 0..11
        /\ 0 \in Range(sentIntervals)

(***************************************************************************)
(* Interval lists that are no interval sets.                                *)
(***************************************************************************)
\* The error the claimed engine returns in place of a list of notes.
InvalidInterval == <<"InvalidInterval">>

\* C14 (as claimed): for an interval list that holds an interval outside 0..11
\* or holds an interval twice, the result is InvalidInterval and no list of
\* notes: the interval is not wrapped modulo 12, dropped or read as an
\* undefined note.
C14_InvalidIntervalRejected ==
    (notesDone /\ ((\E k \in 1..Len(intervals) : intervals[k] \notin 0..11) \/ ~NoDup(intervals)))
        => notes = InvalidInterval

Perms(n) == {q \in [1..n -> 1..n] : \A j, k \in 1..n : j # k => q[j] # q[k]}
Permuted(fing, q) == [k \in 1..Len(fing) |-> fing[q[k]]]
\* The statuses of a successful result, by string.
StatusByString(fing, res) == {<<fing[k][1], res.statuses[k]>> : k \in 1..Len(fing)}
\* Whether a fingering is that of a voicing: at most one entry per string.
OneEntryPerString(fing) == NoDup([k \in 1..Len(fing) |-> fing[k][1]])

FINGERS == 0..4

\* Every triple of the fingering is muted, open or fretted, its finger one the
\* selector offers, a muted triple's finger 0.
TriplesWellFormed ==
    \A k \in 1..Len(fingering) :
        /\ fingering[k][2] >= -1
        /\ fingering[k][3] \in FINGERS
        /\ fingering[k][2] = -1 => fingering[k][3] = 0

\* Choosing remove in the finger selector leaves no triple on the active fret,
\* takes at most that one triple away and changes no other.
RemoveDeletes ==
    HandleFingerSelect(-1) =>
        /\ \A k \in 1..Len(fingering') : <<fingering'[k][1], fingering'[k][2]>> # activeFret
        /\ Range(fingering') = {e \in Range(fingering) : <<e[1], e[2]>> # activeFret}
        /\ Len(fingering') >= Len(fingering) - 1

\* C17: after any sequence of chord-editor operations, from an empty or a
\* loaded fingering, every triple has fret -1, 0 or above 0 and never below -1,
\* a finger in 0..4, and finger 0 when it is muted; choosing remove (-1) in the
\* finger selector deletes the triple of the active fret and -1 is never
\* stored as a finger.
C17_FingeringTriples == [](TriplesWellFormed) /\ [][RemoveDeletes]_vars

\* C17 witness: the fingering holds a muted triple and a fretted triple with a
\* finger on it, the finger selector closed.
C17_Witness ==
    /\ activeFret = NoFret
    /\ \E k \in 1..Len(fingering) : fingering[k][2] = -1
    /\ \E k \in 1..Len(fingering) : fingering[k][2] > 0 /\ fingering[k][3] > 0

VisibilityParity ==
    /\ isIntervalVisible <=> (intervalClicks % 2 = 0)
    /\ isFingeringVisible <=> (fingeringClicks % 2 = 0)
    /\ intervalClicks = 0 => toggleClass(isIntervalVisible) = "active"
    /\ fingeringClicks = 0 => toggleClass(isFingeringVisible) = "active"
    /\ (toggleClass(isIntervalVisible) = "active") <=> (intervalClicks % 2 = 0)
    /\ (toggleClass(isFingeringVisible) = "active") <=> (fingeringClicks % 2 = 0)

\* A click flips the flag of its button, and the second of two clicks on one
\* button brings back the value the flag had before the first.
ClickFlips ==
    /\ intervalClicks' = intervalClicks + 1 =>
          /\ isIntervalVisible' = ~isIntervalVisible
          /\ intervalClicks >= 1 => isIntervalVisible' = intervalBefore
    /\ fingeringClicks' = fingeringClicks + 1 =>
          /\ isFingeringVisible' = ~isFingeringVisible
          /\ fingeringClicks >= 1 => isFingeringVisible' = fingeringBefore

\* C19: interval visibility and fingering visibility both start visible, their
\* buttons carrying the class active; each click on a toggle flips its flag, so
\* that after any sequence of clicks the flag is visible iff the number of
\* clicks on it is even, and two clicks in a row restore the value before them.
C19_ToggleParity == [](VisibilityParity) /\ [][ClickFlips]_vars

\* C19 witness: Intervals was clicked twice and is visible again, Fingerings
\* was clicked three times and is hidden.
C19_Witness ==
    /\ intervalClicks = 2 /\ isIntervalVisible /\ toggleClass(isIntervalVisible) = "active"
    /\ fingeringClicks = 3 /\ ~isFingeringVisible /\ toggleClass(isFingeringVisible) = ""

\* A click on one button leaves the flag of the other as it was.
OtherFlagKept ==
    /\ intervalClicks' = intervalClicks + 1 => isFingeringVisible' = isFingeringVisible
    /\ fingeringClicks' = fingeringClicks + 1 => isIntervalVisible' = isIntervalVisible

\* C20: the two toggles are independent: toggling interval visibility leaves
\* fingering visibility unchanged and toggling fingering visibility leaves
\* interval visibility unchanged, after any sequence of clicks.
C20_TogglesIndependent == [][OtherFlagKept]_vars

\* C20 witness: both buttons were clicked, and Intervals is hidden while
\* Fingerings is visible.
C20_Witness ==
    /\ intervalClicks > 0 /\ fingeringClicks > 0
    /\ ~isIntervalVisible /\ isFingeringVisible

(***************************************************************************)
(* The navigation links.                                                    *)
(***************************************************************************)
\* The links that carry the class active at a location.
ActiveLinks(pathname) ==
    {k \in 1..Len(NAV_LINKS) : navLinkClass(NAV_LINKS[k], pathname) = <<"nav-link", "active">>}

\* Exactly one link is active, and its page is the one page rendered; at the
\* start, and whenever the location is "/", it is Scale Visualizer.
OneActiveLink ==
    /\ Cardinality(ActiveLinks(location)) = 1
    /\ \A k \in ActiveLinks(location) : Rendered(location) = {ROUTES[k].element}
    /\ location = <<>> =>
          /\ ActiveLinks(location) = {1}
          /\ Rendered(location) = {"ScaleVisualizer"}
    /\ Len(navHistory) = 1 => location = <<>>

\* After a click on a link, that link is the active one and one that was
\* active before and is another link is not.
ClickActivates ==
    \A k \in 1..Len(NAV_LINKS) :
        ClickNavLink(NAV_LINKS[k]) =>
            /\ ActiveLinks(location') = {k}
            /\ Rendered(location') = {ROUTES[k].element}
            /\ \A j \in ActiveLinks(location) : j # k => j \notin ActiveLinks(location')

\* C21: at every moment exactly one navigation link is active and it is the
\* link of the page rendered: Scale Visualizer at the start; after a click on
\* a link that link is active, the link active before is not, and the link's
\* page is rendered; back on Scale Visualizer everything is as at the start.
C21_OneActiveLink == [](OneActiveLink) /\ [][ClickActivates]_vars

\* C21 witness: after Settings and Chord Editor, Chord Editor is the active
\* link and its page is rendered.
C21_Witness ==
    /\ navHistory = <<<<>>, <<"settings">>, <<"chord-editor">>>>
    /\ ActiveLinks(location) = {3} /\ Rendered(location) = {"ChordEditor"}

(***************************************************************************)
(* The locks and the selections of the save/load page.                      *)
(***************************************************************************)
\* C22 (as claimed): a tuning is locked exactly when a selected voicing is one
\* of its own, and a chord type exactly when a selected voicing is one of its
\* own; voicings of one tuning never lock another tuning, whatever the names.
C22_LockIffOwnVoicing ==
    /\ \A tuningName \in allData.tunings :
          isTuningLocked(selections, tuningName)
              <=> (\E id \in selections.voicings : Split(id)[1] = tuningName)
    /\ \A typeName \in allData.chord_types :
          isChordTypeLocked(selections, typeName)
              <=> (\E id \in selections.voicings : Split(id)[2] = typeName)

\* Every voicing of a selection has its tuning and its chord type in it.
ParentsSelected(sel) ==
    \A id \in sel.voicings :
        /\ Split(id)[1] \in sel.tunings
        /\ Split(id)[2] \in sel.chordTypes

\* C23: after any sequence of checkbox and select-all or deselect-all
\* operations, every selected voicing has its tuning and its chord type
\* selected, and so has every voicing of a payload Save Selections sends.
C23_VoicingParentsSelected ==
    /\ ParentsSelected(selections)
    /\ sentSelections # NoSelections => ParentsSelected(sentSelections)

\* C23 witness: a payload with a voicing in it was sent, and afterwards
\* voicings were unticked so that a tuning stays selected without a voicing.
C23_Witness ==
    /\ sentSelections # NoSelections /\ sentSelections.voicings # {}
    /\ selections.voicings # {}
    /\ \E tuningName \in selections.tunings :
          \A id \in selections.voicings : Split(id)[1] # tuningName

(***************************************************************************)
(* Loading the save/load page and the factory reset.                        *)
(***************************************************************************)
\* C29 (as claimed): every load terminates the Loading state: whenever
\* isLoading is true it eventually becomes false, whatever the outcome of the
\* request.
C29_LoadingEnds == isLoading ~> ~isLoading

\* A step that sends a factory-reset request is the acceptance of the dialog.
SentOnlyWhenAccepted == resetsSent' # resetsSent => accepted' = accepted + 1
\* A step that declines the dialog changes nothing else.
DeclineChangesNothing ==
    declined' # declined =>
        UNCHANGED <<saveLoadVars, isLoading, pendingFetches, pendingResets, pendingLoads,
                    fetchesStarted, accepted, resetsSent, resetsSucceeded>>
\* A step that takes the outcome of a reset request starts a fetch exactly
\* when the reset reported success.
RefetchOnlyOnSuccess ==
    pendingResets' < pendingResets =>
        (fetchesStarted' # fetchesStarted <=> resetsSucceeded' = resetsSucceeded + 1)

\* C30: a factory-reset request is sent only on accepting the confirmation
\* dialog, declining sends nothing and changes no state, and the data is
\* re-fetched by the reset only after it reported success.
C30_ResetOnlyWhenConfirmed ==
    /\ [](resetsSent = accepted /\ resetsSucceeded <= resetsSent)
    /\ [][SentOnlyWhenAccepted /\ DeclineChangesNothing /\ RefetchOnlyOnSuccess]_vars

\* C30 witness: the dialog was declined once and accepted once, the reset
\* succeeded and the re-fetched data is shown.
C30_Witness ==
    /\ declined = 1 /\ accepted = 1 /\ resetsSucceeded = 1
    /\ fetchesStarted = 2 /\ pendingFetches = 0 /\ PageShows = "data"

(***************************************************************************)
(* The voicing buttons of the visualizer pages.                             *)
(***************************************************************************)
\* The index is All Tones or a position of the list, and the voicing shown
\* is then an element of the list.
VoicingIndexValid ==
    /\ selectedVoicingIndex \in -1..(Len(pageVoicings) - 1)
    /\ selectedVoicingIndex > -1 => currentVoicing \in Range(pageVoicings)
\* Next Voicing and Prev Voicing leave the index at a position of the list.
StepStaysInList ==
    (HandleNextVoicing \/ HandlePrevVoicing) =>
        selectedVoicingIndex' \in 0..(Len(pageVoicings') - 1)
\* The index becomes -1 only by Show All Tones or by a reload of the voicings.
AllTonesOnlyByReset ==
    (selectedVoicingIndex # -1 /\ selectedVoicingIndex' = -1) =>
        \/ ShowAllTones
        \/ <<selectedRoot, selectedScale, selectedTuning, selectedChord>>' #
               <<selectedRoot, selectedScale, selectedTuning, selectedChord>>

\* C24: with at least one voicing loaded, Next Voicing and Prev Voicing leave
\* the index in 0..n-1 and never go back to -1; the index is -1 only at the
\* start, after Show All Tones or after a reload, and the voicing shown is
\* always an element of the current list.
C24_VoicingIndexInRange ==
    /\ [](VoicingIndexValid)
    /\ [][StepStaysInList /\ AllTonesOnlyByReset]_vars

\* C24 witness: the one voicing of a list of one is shown, which Next
\* Voicing or Prev Voicing selected from All Tones.
C24_Witness ==
    /\ selectedVoicingIndex = Len(pageVoicings) - 1
    /\ Len(pageVoicings) = 1

(***************************************************************************)
(* Handedness and accidental type kept in localStorage.                     *)
(***************************************************************************)
\* Both states hold one of their two legal values.
SettingsLegal == handedness \in {"left", "right"} /\ contextAccidentalType \in {"sharps", "flats"}
\* At the first render the state is the stored value when that is legal and
\* the default otherwise.
InitialFromStorage ==
    (effectsPending /\ reloads = 0) =>
        /\ handedness = (IF localStorage.handedness \in {<<"left">>, <<"right">>}
                         THEN localStorage.handedness[1] ELSE "right")
        /\ contextAccidentalType = (IF localStorage.accidental \in {<<"sharps">>, <<"flats">>}
                             THEN localStorage.accidental[1] ELSE "sharps")
\* Once the effects have run, localStorage holds the current state.
StoredIsState ==
    ~effectsPending =>
        localStorage = [handedness |-> <<handedness>>, accidental |-> <<contextAccidentalType>>]
\* A reload restores the values last chosen.
ReloadRestores ==
    reloads' # reloads => handedness' = handedness /\ contextAccidentalType' = contextAccidentalType

\* C28: for handedness and accidental type the initial value is the stored
\* one when legal and the default otherwise, the state is always legal, and
\* after every toggle localStorage holds the current state, so that a reload
\* restores the value last chosen.
C28_SettingsPersist ==
    /\ [](SettingsLegal /\ InitialFromStorage /\ StoredIsState)
    /\ [][ReloadRestores]_vars

\* C28 witness: both settings were toggled away from their defaults and the
\* page was reloaded; the providers hold the toggled values again.
C28_Witness ==
    /\ reloads = 1 /\ effectsPending
    /\ handedness = "left" /\ contextAccidentalType = "flats"

(***************************************************************************)
(* The strum toggle of the chord editor.                                    *)
(***************************************************************************)
\* The entries of a fingering that are not on the string, in order.
OffString(fing, stringId) ==
    LET other(e) == e[1] # stringId IN SelectSeq(fing, other)
\* From a string without an entry: open, then muted, then no entry again.
ToggleCycle(stringId) ==
    OffString(fingering, stringId) = fingering =>
        LET once == StrumToggled(fingering, stringId)
            twice == StrumToggled(once, stringId)
        IN  /\ once = Append(fingering, <<stringId, 0, 0>>)
            /\ twice = Append(fingering, <<stringId, -1, 0>>)
            /\ StrumToggled(twice, stringId) = fingering
\* One toggle removes the fretted entry the string has.
FrettedRemoved(stringId) ==
    \A k \in 1..Len(fingering) :
        (/\ fingering[k][1] = stringId /\ fingering[k][2] > 0
         /\ \A h \in 1..(k - 1) : fingering[h][1] # stringId)
            => StrumToggled(fingering, stringId) = Splice(fingering, k - 1)
\* A toggle leaves the entries of the other strings as they are.
OtherStringsKept(stringId) ==
    OffString(StrumToggled(fingering, stringId), stringId) = OffString(fingering, stringId)

C25_ChordAmongShown ==
    chordFetches = {} => (selectedChord = NoChord \/ selectedChord \in Range(shownChords))

\* C26 (as claimed): once every response has arrived, the fretboard data, the
\* voicings and the chord notes are those of the latest selection, in
\* whatever order the responses arrived.
C26_LatestSelectionShown ==
    (chordFetches = {} /\ dataFetches = {}) =>
        /\ fretboardData = FretboardFor(selectedRoot, selectedScale, selectedTuning)
        /\ pageVoicings = VoicingsFor(selectedTuning, selectedChord)
        /\ chordNotes = ChordNotesFor(selectedChord)

====
